---- MODULE Spec2Model ----
(***************************************************************************)
(* Model of the response-segmentation pipeline of                          *)
(* Mary2ish/app/utils/response_processing.py:                              *)
(*   process_thinking_response, process_mcp_response_enhanced and          *)
(*   process_agent_response.                                               *)
(*                                                                         *)
(* Python str values are TLA+ strings; TLC evaluates Len, \o and SubSeq on *)
(* strings, so every operator below works on the characters of the text,   *)
(* as the regular expressions of the source do.  Optional[str] is a        *)
(* sequence of zero or one strings: None is <<>>, a string s is <<s>>.     *)
(***************************************************************************)
EXTENDS Integers, Sequences, FiniteSets, TLC

(***************************************************************************)
(* Bounds of the input space.                                              *)
(***************************************************************************)
MaxTokens == 4
MaxLines == 4
MaxSegments == 3

(***************************************************************************)
(* Characters and character classes (the classes the regular expressions   *)
(* of the source use: \s, \w, \d, [A-Z_], ...).                            *)
(***************************************************************************)
Whitespace == {" ", "\n", "\t", "\r", "\f"}
UpperAlpha == "ABCDEFGHIJKLMNOPQRSTUVWXYZ"
LowerAlpha == "abcdefghijklmnopqrstuvwxyz"
DigitChars == {"0", "1", "2", "3", "4", "5", "6", "7", "8", "9"}
UpperChars == {SubSeq(UpperAlpha, k, k) : k \in 1..26}
LowerChars == {SubSeq(LowerAlpha, k, k) : k \in 1..26}
WordChars == UpperChars \cup LowerChars \cup DigitChars \cup {"_"}
CapsKeyChars == UpperChars \cup {"_"}
IdentChars == UpperChars \cup LowerChars \cup DigitChars \cup {"@", ".", "_", "/", "-"}
QuoteChars == {"\"", "'"}

None == <<>>
Some(s) == <<s>>

Min(S) == CHOOSE x \in S : \A y \in S : x <= y
Max(S) == CHOOSE x \in S : \A y \in S : y <= x

\* s[m-1:n] of Python (positions are 1-based here): empty when out of range
Sub(s, m, n) == IF m < 1 \/ n > Len(s) \/ m > n THEN "" ELSE SubSeq(s, m, n)

\* the character at position i, "" beyond the ends
At(s, i) == Sub(s, i, i)

\* s[i-1:] of Python
From(s, i) == Sub(s, i, Len(s))

\* s.startswith(pat, i-1)
StartsAt(s, i, pat) ==
    /\ i >= 1
    /\ i + Len(pat) - 1 <= Len(s)
    /\ Sub(s, i, i + Len(pat) - 1) = pat

RECURSIVE Find(_, _, _)
\* s.find(pat, from-1) + 1: the least position >= from where pat starts, 0 if none
\* (the scan reads eight positions at a step)
Find(s, pat, from) ==
    IF from + Len(pat) - 1 > Len(s) THEN 0
    ELSE LET last == Min({from + 7, Len(s) - Len(pat) + 1})
             hits == {k \in from..last : SubSeq(s, k, k + Len(pat) - 1) = pat}
         IN  IF hits # {} THEN Min(hits) ELSE Find(s, pat, from + 8)

\* pat in s
Contains(s, pat) == Find(s, pat, 1) # 0

LowerOf == [c \in UpperChars |-> At(LowerAlpha, Find(UpperAlpha, c, 1))]
LowerChar(c) == IF c \in UpperChars THEN LowerOf[c] ELSE c

RECURSIVE Lower(_)
\* str.lower()
Lower(s) ==
    IF Len(s) = 0 THEN ""
    ELSE IF Len(s) = 1 THEN LowerChar(s)
    ELSE LET half == Len(s) \div 2
         IN  Lower(SubSeq(s, 1, half)) \o Lower(SubSeq(s, half + 1, Len(s)))

RECURSIVE RunEnd(_, _, _)
\* the end (exclusive) of the longest run of characters of class C starting at i
\* (the scan reads eight positions at a step)
RunEnd(s, i, C) ==
    IF i > Len(s) THEN Len(s) + 1
    ELSE LET stops == {k \in i..Min({i + 7, Len(s)}) : At(s, k) \notin C}
         IN  IF stops # {} THEN Min(stops) ELSE RunEnd(s, i + 8, C)

RECURSIVE RunStart(_, _, _)
\* the first position of the longest run of characters of class C ending at i
RunStart(s, i, C) ==
    IF i < 1 THEN 1
    ELSE LET stops == {k \in Max({i - 7, 1})..i : At(s, k) \notin C}
         IN  IF stops # {} THEN Max(stops) + 1 ELSE RunStart(s, i - 8, C)

\* str.strip()
Strip(s) == Sub(s, RunEnd(s, 1, Whitespace), RunStart(s, Len(s), Whitespace) - 1)

RECURSIVE ReplaceAll(_, _)
\* str.replace(old, ''): every non-overlapping occurrence, leftmost first;
\* Python's replace of the empty string by the empty string changes nothing
ReplaceAll(s, old) ==
    IF old = "" THEN s
    ELSE LET k == Find(s, old, 1)
         IN  IF k = 0 THEN s
             ELSE Sub(s, 1, k - 1) \o ReplaceAll(From(s, k + Len(old)), old)

RECURSIVE Split(_)
\* str.split('\n')
Split(s) ==
    LET k == Find(s, "\n", 1)
    IN  IF k = 0 THEN <<s>>
        ELSE <<Sub(s, 1, k - 1)>> \o Split(From(s, k + 1))

RECURSIVE Join(_, _)
\* sep.join(parts)
Join(sep, parts) ==
    IF parts = <<>> THEN ""
    ELSE IF Len(parts) = 1 THEN parts[1]
    ELSE parts[1] \o sep \o Join(sep, Tail(parts))

RECURSIVE RunEndNot(_, _, _)
\* the first position >= i holding a character of Stops, Len(s)+1 if none
RunEndNot(s, i, Stops) ==
    IF i > Len(s) THEN Len(s) + 1
    ELSE LET stops == {k \in i..Min({i + 7, Len(s)}) : At(s, k) \in Stops}
         IN  IF stops # {} THEN Min(stops) ELSE RunEndNot(s, i + 8, Stops)

(***************************************************************************)
(* Regular expressions of the source, each as the scan the regex engine    *)
(* performs.  A span is <<first, end>>: the match is s[first .. end-1].    *)
(***************************************************************************)

RECURSIVE BlockSpans_ToEnd(_, _, _, _)
\* BlockSpans as a pattern that lets the end of the text close a block
\* ('(.*?)(close|$)') would find the spans: an unclosed opening matches to
\* the end
BlockSpans_ToEnd(s, open, close, from) ==
    LET i == Find(s, open, from)
        j == IF i = 0 THEN 0 ELSE Find(s, close, i + Len(open))
    IN  IF i = 0 THEN <<>>
        ELSE IF j = 0 THEN <<<<i, Len(s) + 1>>>>
        ELSE <<<<i, j + Len(close)>>>> \o BlockSpans_ToEnd(s, open, close, j + Len(close))

RECURSIVE BlockSpans(_, _, _, _)
\* re.finditer(open + '.*?' + close, s, re.DOTALL) from position `from`:
\* the leftmost opening delimiter, then the nearest closing delimiter after
\* it; the scan resumes after the match.  When the leftmost opening has no
\* closing after it, no later opening has one either.
BlockSpans(s, open, close, from) ==
    LET i == Find(s, open, from)
        j == IF i = 0 THEN 0 ELSE Find(s, close, i + Len(open))
    IN  IF i = 0 \/ j = 0 THEN <<>>
        ELSE <<<<i, j + Len(close)>>>> \o BlockSpans(s, open, close, j + Len(close))

RECURSIVE AttrBlockSpans(_, _, _, _)
\* re.finditer(open + '[^>]*>.*?' + close, s, re.DOTALL): the opening tag
\* runs to the first '>' after its name
AttrBlockSpans(s, open, close, from) ==
    LET i == Find(s, open, from)
        g == IF i = 0 THEN 0 ELSE Find(s, ">", i + Len(open))
        j == IF g = 0 THEN 0 ELSE Find(s, close, g + 1)
    IN  IF i = 0 \/ g = 0 \/ j = 0 THEN <<>>
        ELSE <<<<i, j + Len(close)>>>> \o AttrBlockSpans(s, open, close, j + Len(close))

\* the matched texts of a list of spans
SpanTexts(s, spans) == [k \in 1..Len(spans) |-> Sub(s, spans[k][1], spans[k][2] - 1)]

RECURSIVE RemoveSpans(_, _, _)
\* re.sub(pattern, '', s): s without the (ordered, disjoint) spans; `from` is
\* the position the copy resumes at
RemoveSpans(s, spans, from) ==
    IF spans = <<>> THEN From(s, from)
    ELSE Sub(s, from, spans[1][1] - 1) \o RemoveSpans(s, Tail(spans), spans[1][2])

RECURSIVE CollapseNewlines(_)
\* re.sub(r'\n\s*\n\s*\n', '\n\n', s) and re.sub(r'\n\s*\n\s*\n+', '\n\n', s):
\* a match starts at a newline whose whitespace run holds three newlines or
\* more and, both \s* being greedy, ends at the last newline of that run
CollapseNewlines(s) ==
    LET i == Find(s, "\n", 1)
        e == RunEnd(s, i, Whitespace)
        nls == {k \in i..(e - 1) : At(s, k) = "\n"}
    IN  IF i = 0 THEN s
        ELSE IF Cardinality(nls) >= 3
             THEN Sub(s, 1, i - 1) \o "\n\n" \o CollapseNewlines(From(s, Max(nls) + 1))
             ELSE Sub(s, 1, e - 1) \o CollapseNewlines(From(s, e))

(***************************************************************************)
(* process_thinking_response                                               *)
(***************************************************************************)
ThinkOpen == "<think>"
ThinkClose == "</think>"

\* ThinkSpans without re.IGNORECASE
ThinkSpans_CaseSensitive(response) == BlockSpans(response, ThinkOpen, ThinkClose, 1)

\* the spans of re.findall(think_pattern, response, re.DOTALL | re.IGNORECASE)
ThinkSpans(response) == BlockSpans(Lower(response), ThinkOpen, ThinkClose, 1)

\* group 1 of each match
thinking_matches(response) ==
    LET spans == ThinkSpans(response)
    IN  [k \in 1..Len(spans) |->
            Sub(response, spans[k][1] + Len(ThinkOpen), spans[k][2] - Len(ThinkClose) - 1)]

\* ThinkingContent without the test of line 77: the join of no match is ""
ThinkingContent_AlwaysJoin(matches) ==
    Some(Join("\n\n", [k \in 1..Len(matches) |-> Strip(matches[k])]))

\* ThinkingContent with line 77 testing the joined text instead of the list
ThinkingContent_NoneWhenBlank(matches) ==
    IF Join("\n\n", [k \in 1..Len(matches) |-> Strip(matches[k])]) = "" THEN None
    ELSE Some(Join("\n\n", [k \in 1..Len(matches) |-> Strip(matches[k])]))

\* line 78: None when no match, else the trimmed matches joined by a blank line
ThinkingContent(matches) ==
    IF matches = <<>> THEN None
    ELSE Some(Join("\n\n", [k \in 1..Len(matches) |-> Strip(matches[k])]))

process_thinking_response(response) ==
    [clean_response |->
        Strip(CollapseNewlines(RemoveSpans(response, ThinkSpans(response), 1))),
     thinking_content |-> ThinkingContent(thinking_matches(response))]

(***************************************************************************)
(* process_mcp_response_enhanced: steps 1-3, the block extractors          *)
(***************************************************************************)

\* lines 326-331; a pattern is a literal opening, whether the opening tag may
\* carry attributes ([^>]*>), and a literal closing
function_call_patterns ==
    << [attrs |-> FALSE, open |-> "<function_calls>", close |-> "</function_calls>"],
       [attrs |-> TRUE,  open |-> "<invoke",          close |-> "</invoke>"],
       [attrs |-> TRUE,  open |-> "<invoke",          close |-> "</invoke>"],
       [attrs |-> TRUE,  open |-> "<parameter",       close |-> "</parameter>"] >>

\* lines 340-344
result_patterns ==
    << [attrs |-> FALSE, open |-> "<function_results>", close |-> "</function_results>"],
       [attrs |-> FALSE, open |-> "<fnr>",              close |-> "</fnr>"],
       [attrs |-> FALSE, open |-> "<function_calls>",   close |-> "</function_calls>"] >>

\* re.findall(pattern, text, re.DOTALL) for a markup pattern
FindAllMarkup(pattern, text) ==
    SpanTexts(text,
              IF pattern.attrs
              THEN AttrBlockSpans(text, pattern.open, pattern.close, 1)
              ELSE BlockSpans(text, pattern.open, pattern.close, 1))

RECURSIVE RemoveEach(_, _)
\* lines 335-337: for match in matches: append the match, then
\* str.replace(match, '') on the working text.  st is [text, data].
RemoveEach(st, matches) ==
    IF matches = <<>> THEN st
    ELSE RemoveEach([text |-> ReplaceAll(st.text, matches[1]),
                     data |-> Append(st.data, matches[1])],
                    Tail(matches))

RECURSIVE RemoveMarkup(_, _)
\* lines 333-337 and 346-350: the matches of each pattern are found in the
\* text as the earlier patterns left it
RemoveMarkup(st, patterns) ==
    IF patterns = <<>> THEN st
    ELSE RemoveMarkup(RemoveEach(st, FindAllMarkup(patterns[1], st.text)), Tail(patterns))

RECURSIVE BracketEnd(_, _, _, _)
\* the rest of \{[^{}]*(?:\{[^{}]*\}[^{}]*)*\} after its opening bracket, read
\* from position q: the end (exclusive) of the match, 0 if there is none.  The
\* character classes exclude both brackets, so the scan has no choice to make.
BracketEnd(s, q, o, c) ==
    LET p == RunEndNot(s, q, {o, c})
        r == RunEndNot(s, p + 1, {o, c})
    IN  IF p > Len(s) THEN 0
        ELSE IF At(s, p) = c THEN p + 1
        ELSE IF r > Len(s) \/ At(s, r) = o THEN 0
        ELSE BracketEnd(s, r + 1, o, c)

RECURSIVE FindAllBracketed(_, _, _, _)
\* re.findall of a json_patterns entry: a start that fails is skipped by one
\* character, a match is skipped whole
FindAllBracketed(s, from, o, c) ==
    LET i == Find(s, o, from)
        e == BracketEnd(s, i + 1, o, c)
    IN  IF i = 0 THEN <<>>
        ELSE IF e = 0 THEN FindAllBracketed(s, i + 1, o, c)
        ELSE <<Sub(s, i, e - 1)>> \o FindAllBracketed(s, e, o, c)

\* lines 353-356
json_patterns == << <<"{", "}">>, <<"[", "]">> >>

\* lines 362-366
json_keywords ==
    {"title", "url", "id", "name", "type", "status", "result", "search",
     "data", "response", "query", "results_found", "score", "snippet",
     "web", "results", "description"}

\* line 362: any(keyword in match.lower() ...)
HasKeyword(match) == \E keyword \in json_keywords : Contains(Lower(match), keyword)

RECURSIVE RemoveKeyworded(_, _)
\* lines 360-368
RemoveKeyworded(st, matches) ==
    IF matches = <<>> THEN st
    ELSE RemoveKeyworded(
            IF HasKeyword(matches[1])
            THEN [text |-> ReplaceAll(st.text, matches[1]),
                  data |-> Append(st.data, matches[1])]
            ELSE st,
            Tail(matches))

RECURSIVE RemoveJson(_, _)
\* lines 358-368
RemoveJson(st, patterns) ==
    IF patterns = <<>> THEN st
    ELSE RemoveJson(
            RemoveKeyworded(st, FindAllBracketed(st.text, 1, patterns[1][1], patterns[1][2])),
            Tail(patterns))

(***************************************************************************)
(* process_mcp_response_enhanced: step 4, the line predicates.  Each       *)
(* metadata pattern is re.match(pattern, line_stripped): anchored at the   *)
(* start, case-sensitive.  In every pattern a greedy run is followed by a  *)
(* character outside its class, so the match is read off left to right.    *)
(***************************************************************************)

\* ^\s*\w+: -- the position after the colon, 0 when the key does not match
AfterKey(s) ==
    LET st == RunEnd(s, 1, Whitespace)
        e == RunEnd(s, st, WordChars)
    IN  IF e > st /\ At(s, e) = ":" THEN e + 1 ELSE 0

\* ^\s*\w+:\s* -- the position after the key, the colon and the blanks
AfterKeyBlanks(s) == IF AfterKey(s) = 0 THEN 0 ELSE RunEnd(s, AfterKey(s), Whitespace)

\* line 377:  ^\s*[A-Z_]{2,}:\s*
MetaCapsKey(s) ==
    LET st == RunEnd(s, 1, Whitespace)
        e == RunEnd(s, st, CapsKeyChars)
    IN  e - st >= 2 /\ At(s, e) = ":"

\* line 378:  ^\s*\w+:\s*https?://[^\s]+$
MetaKeyUrl(s) ==
    LET b == AfterKeyBlanks(s)
        p == IF StartsAt(s, b, "https://") THEN b + 8
             ELSE IF StartsAt(s, b, "http://") THEN b + 7 ELSE 0
    IN  b # 0 /\ p # 0 /\ p <= Len(s) /\ RunEndNot(s, p, Whitespace) = Len(s) + 1

\* (\.\d+)? or (/\d+)? read at position d: the position after the group when
\* it matches, d when it is skipped
OptSepDigits(s, d, sep) ==
    IF At(s, d) = sep /\ RunEnd(s, d + 1, DigitChars) > d + 1
    THEN RunEnd(s, d + 1, DigitChars) ELSE d

\* line 379:  ^\s*\w+:\s*\d+(\.\d+)?(/\d+)?$
MetaKeyNumber(s) ==
    LET b == AfterKeyBlanks(s)
        d1 == RunEnd(s, b, DigitChars)
        d2 == OptSepDigits(s, d1, ".")
        d3 == OptSepDigits(s, d2, "/")
    IN  b # 0 /\ d1 > b /\ d3 = Len(s) + 1

\* line 380:  ^\s*\w+:\s*\d{4}-\d{2}-\d{2}
MetaKeyDate(s) ==
    LET b == AfterKeyBlanks(s)
    IN  /\ b # 0
        /\ b + 9 <= Len(s)
        /\ \A k \in {0, 1, 2, 3, 5, 6, 8, 9} : At(s, b + k) \in DigitChars
        /\ At(s, b + 4) = "-"
        /\ At(s, b + 7) = "-"

\* \s*,?\s*$ -- what may follow the value of a JSON-like pair
PairTail(t) ==
    /\ \A k \in 1..Len(t) : At(t, k) \in Whitespace \cup {","}
    /\ Cardinality({k \in 1..Len(t) : At(t, k) = ","}) <= 1

\* \s*["']?[^"']+["']?\s*,?\s*$ -- the value of a JSON-like pair.  [^"']+
\* also takes blanks and commas, so only the quotes constrain the match: none
\* (any non-empty value), an opening one (first non-blank, a value after it),
\* a closing one (a value before it, the tail after it), or both.
PairValue(r) ==
    LET quotes == {k \in 1..Len(r) : At(r, k) \in QuoteChars}
        f == RunEnd(r, 1, Whitespace)
    IN  CASE Cardinality(quotes) = 0 -> r # ""
          [] Cardinality(quotes) = 1 ->
                LET q == Min(quotes)
                IN  \/ q = f /\ q < Len(r)
                    \/ q > 1 /\ PairTail(From(r, q + 1))
          [] Cardinality(quotes) = 2 ->
                /\ Min(quotes) = f
                /\ Max(quotes) > Min(quotes) + 1
                /\ PairTail(From(r, Max(quotes) + 1))
          [] OTHER -> FALSE

\* line 381:  ^\s*["']?\w+["']?\s*:\s*["']?[^"']+["']?\s*,?\s*$
MetaJsonPair(s) ==
    LET st == RunEnd(s, 1, Whitespace)
        k0 == IF At(s, st) \in QuoteChars THEN st + 1 ELSE st
        e == RunEnd(s, k0, WordChars)
        e2 == IF At(s, e) \in QuoteChars THEN e + 1 ELSE e
        w == RunEnd(s, e2, Whitespace)
    IN  e > k0 /\ At(s, w) = ":" /\ PairValue(From(s, w + 1))

\* line 382:  ^\s*\w+:\s*[a-zA-Z0-9@._/-]+$
MetaKeyIdent(s) ==
    LET b == AfterKeyBlanks(s)
    IN  b # 0 /\ b <= Len(s) /\ RunEnd(s, b, IdentChars) = Len(s) + 1

\* IsMetadata with the first of the metadata patterns alone
IsMetadata_CapsKeysOnly(line_stripped) == MetaCapsKey(line_stripped)

\* line 404: any(re.match(pattern, line_stripped) for pattern in metadata_patterns)
IsMetadata(line_stripped) ==
    \/ MetaCapsKey(line_stripped)
    \/ MetaKeyUrl(line_stripped)
    \/ MetaKeyNumber(line_stripped)
    \/ MetaKeyDate(line_stripped)
    \/ MetaJsonPair(line_stripped)
    \/ MetaKeyIdent(line_stripped)

\* lines 432-436: the literal alternatives of human_indicators
human_prefixes ==
    {"here", "this", "that", "these", "those", "i", "you", "we", "they",
     "based on", "according to", "looking at", "from", "after",
     "would", "could", "should", "can", "may", "might", "let me",
     "yes,", "no,", "sure,", "certainly,", "absolutely,", "unfortunately,",
     "i'd", "i'll", "i'm", "i've", "allow me"}

\* line 437: ^(the \w+|a \w+|an \w+)
human_articles == {"the ", "a ", "an "}

\* line 440: any(re.match(pattern, line_stripped.lower()) ...)
LooksConversational(line_stripped) ==
    LET l == Lower(line_stripped)
    IN  \/ \E pre \in human_prefixes : StartsAt(l, 1, pre)
        \/ \E art \in human_articles :
              StartsAt(l, 1, art) /\ At(l, Len(art) + 1) \in WordChars

\* line 443: the length above which a line starts the human content
HumanLineLength == 25

\* StartsHumanContent with the length of process_mcp_response, 20 (line 221)
StartsHumanContent_OverTwenty(line_stripped) ==
    LooksConversational(line_stripped) \/ Len(line_stripped) > 20

\* lines 440-444
StartsHumanContent(line_stripped) ==
    LooksConversational(line_stripped) \/ Len(line_stripped) > HumanLineLength

(***************************************************************************)
(* The inputs: the texts an agent may return, drawn from four bounded      *)
(* families.                                                               *)
(***************************************************************************)

\* pieces of text concatenated freely: reasoning tags in two letter cases,
\* a tool-result tag pair, blanks, a line break and a letter
Tokens == {"<think>", "</think>", "<THINK>", "<fnr>", "</fnr>", " ", "\n", "a"}

\* whole lines joined by line breaks: a blank line, a metadata line, a short
\* line, a conversational line longer than HumanLineLength, a keyworded JSON
\* object and a tool-result block
LineKinds == {"", "k: 1", "Hi", "Here is the answer you need.", "{id}", "<fnr>x</fnr>"}

\* a JSON object with the keys "title" and "url", a separator and a
\* two-sentence explanation, in several sizes
JsonObjects ==
    {"{\"title\":\"T\",\"url\":\"U\"}",
     "{\"title\": \"A long title of a page\", \"url\": \"http://example.com/a\"}"}
Separators == {"\n", "\n\n", " "}
Explanations ==
    {"Hi. Ok.",
     "Good page. Read it.",
     "This page explains the topic well. It is worth reading in full."}

\* reasoning blocks (content to trim, upper case, empty), an opening tag
\* alone, a word and a run of line breaks, concatenated freely
ThinkSegments ==
    {"<think> a\n</think>", "<THINK>b</THINK>", "<think></think>", "<think>", "x", "\n\n\n"}

TokenInputs ==
    {Join("", ts) : ts \in UNION {[1..n -> Tokens] : n \in 0..MaxTokens}}
LineInputs ==
    {Join("\n", ls) : ls \in UNION {[1..n -> LineKinds] : n \in 1..MaxLines}}
JsonInputs ==
    {j \o sep \o e : j \in JsonObjects, sep \in Separators, e \in Explanations}

SegmentInputs ==
    {Join("", ss) : ss \in UNION {[1..n -> ThinkSegments] : n \in 1..MaxSegments}}

\* braces and brackets, balanced or not, around a keyword and a letter
BracketTokens == {"{", "}", "[", "]", "id", "x"}
BracketInputs ==
    {Join("", bs) : bs \in UNION {[1..n -> BracketTokens] : n \in 1..MaxTokens}}

\* a leading run of key: value metadata lines, a blank line, human text
MetadataLineKinds == {"k: 1", "NAME: x", "description: a-long-identifier-of-a-thing"}
HumanTexts == {"Hi", "Here is the answer you need.", "Ok then.\nThat is all there is."}
MetadataRuns == UNION {[1..n -> MetadataLineKinds] : n \in 3..MaxLines}
MetadataInputs == {Join("\n", ms) \o "\n\n" \o h : ms \in MetadataRuns, h \in HumanTexts}

\* after a human text: a keyworded span and the same span inside another
\* one; a keyworded span in brackets that ends inside a span in braces
OverlappingBracketInputs == {"Hi there {id}{{id}}", "Hi there [id{]}"}

\* a line without conversational opener, of HumanLineLength characters and
\* of one more, before a metadata line
ThresholdInputs ==
    {"Good page, read it all ok\nk: 1", "Good page, read it all ok.\nk: 1"}

\* a short and a long reasoning block before a metadata line and a short text
ReasoningInputs ==
    {"<think>a</think>k: 1\nHi",
     "<think>a long reasoning about the matter at hand</think>k: 1\nHi"}

Inputs ==
    TokenInputs \cup LineInputs \cup JsonInputs \cup SegmentInputs \cup BracketInputs
        \cup MetadataInputs \cup OverlappingBracketInputs \cup ThresholdInputs
        \cup ReasoningInputs

(***************************************************************************)
(* State: one invocation of process_agent_response, followed by a second   *)
(* invocation on the narrative the first one returned.                     *)
(***************************************************************************)
VARIABLES
    response,               \* the argument of process_agent_response
    round,                  \* 1: the call on an input; 2: the call on its narrative
    pc,                     \* the position in the call
    after_thinking,         \* line 508; `response` inside process_mcp_response_enhanced
    thinking_content,       \* line 508
    clean_response,         \* line 323: the working text
    all_mcp_data,           \* line 322
    lines,                  \* line 371
    i,                      \* the index (1-based) of the line the loop of line 390 is at
    clean_lines,            \* line 372
    mcp_lines,              \* line 373
    human_content_started,  \* line 386
    in_metadata_block,      \* line 387
    metadata_block_lines,   \* line 388
    mcp_data,               \* line 467
    result,                 \* the returned triple
    response_no_json,       \* process_mcp_response, line 101
    json_data_parts,        \* process_mcp_response, line 102
    consecutive_technical_lines,    \* process_mcp_response, line 189
    in_technical_block,     \* process_mcp_response, line 262
    calls                   \* the invocations that run side by side, each with its frame

vars == <<response, round, pc, after_thinking, thinking_content, clean_response,
          all_mcp_data, lines, i, clean_lines, mcp_lines, human_content_started,
          in_metadata_block, metadata_block_lines, mcp_data, result,
          response_no_json, json_data_parts, consecutive_technical_lines,
          in_technical_block, calls>>

\* the locals that process_mcp_response alone has
LegacyVars == <<response_no_json, json_data_parts, consecutive_technical_lines,
                in_technical_block>>

NoResult == [narrative |-> "", reasoning |-> None, structuredData |-> None]

\* the locals of a call before it has run
Fresh ==
    /\ after_thinking = ""
    /\ thinking_content = None
    /\ clean_response = ""
    /\ all_mcp_data = <<>>
    /\ lines = <<>>
    /\ i = 1
    /\ clean_lines = <<>>
    /\ mcp_lines = <<>>
    /\ human_content_started = FALSE
    /\ in_metadata_block = FALSE
    /\ metadata_block_lines = <<>>
    /\ mcp_data = None
    /\ result = NoResult
    /\ response_no_json = ""
    /\ json_data_parts = <<>>
    /\ consecutive_technical_lines = 0
    /\ in_technical_block = FALSE

Init ==
    /\ response \in Inputs
    /\ round = 1
    /\ pc = "start"
    /\ Fresh
    /\ calls = <<>>

LoopVars == <<lines, i, clean_lines, mcp_lines, human_content_started,
              in_metadata_block, metadata_block_lines>>

\* line 508: after_thinking, thinking_content = process_thinking_response(response)
ProcessThinking ==
    /\ pc = "start"
    /\ LET r == process_thinking_response(response)
       IN  /\ after_thinking' = r.clean_response
           /\ thinking_content' = r.thinking_content
    /\ pc' = "enhanced"
    /\ UNCHANGED <<LegacyVars, calls, response, round, clean_response, all_mcp_data, mcp_data, result, LoopVars>>

\* lines 318-319, then 513
ReturnEmpty ==
    /\ pc = "enhanced"
    /\ Strip(after_thinking) = ""
    /\ result' = [narrative |-> "", reasoning |-> thinking_content, structuredData |-> None]
    /\ pc' = "done"
    /\ UNCHANGED <<LegacyVars, calls, response, round, after_thinking, thinking_content, clean_response,
                   all_mcp_data, mcp_data, LoopVars>>

\* lines 322-337
RemoveFunctionCalls ==
    /\ pc = "enhanced"
    /\ Strip(after_thinking) # ""
    /\ LET st == RemoveMarkup([text |-> after_thinking, data |-> <<>>], function_call_patterns)
       IN  /\ clean_response' = st.text
           /\ all_mcp_data' = st.data
    /\ pc' = "results"
    /\ UNCHANGED <<LegacyVars, calls, response, round, after_thinking, thinking_content, mcp_data, result, LoopVars>>

\* lines 339-350
RemoveFunctionResults ==
    /\ pc = "results"
    /\ LET st == RemoveMarkup([text |-> clean_response, data |-> all_mcp_data], result_patterns)
       IN  /\ clean_response' = st.text
           /\ all_mcp_data' = st.data
    /\ pc' = "json"
    /\ UNCHANGED <<LegacyVars, calls, response, round, after_thinking, thinking_content, mcp_data, result, LoopVars>>

\* lines 352-373 and 386-388
ExtractJson ==
    /\ pc = "json"
    /\ LET st == RemoveJson([text |-> clean_response, data |-> all_mcp_data], json_patterns)
       IN  /\ clean_response' = st.text
           /\ all_mcp_data' = st.data
           /\ lines' = Split(st.text)
    /\ i' = 1
    /\ clean_lines' = <<>>
    /\ mcp_lines' = <<>>
    /\ human_content_started' = FALSE
    /\ in_metadata_block' = FALSE
    /\ metadata_block_lines' = <<>>
    /\ pc' = "lines"
    /\ UNCHANGED <<LegacyVars, calls, response, round, after_thinking, thinking_content, mcp_data, result>>

(***************************************************************************)
(* process_mcp_response_enhanced: step 4, the loop over the lines          *)
(***************************************************************************)

\* lines 419 and 451: the size from which a metadata block is a large one
MetadataBlockSize == 3

\* line 470: the share of the input, in percent, below which the clean
\* response counts as filtered too much
SafetyNetPercent == 25

\* lines 419-424 and 451-454: where a metadata block that ends goes.
\* st is [clean, mcp]: the clean lines and the MCP lines so far.
ResolveBlock(st, block, started) ==
    IF Len(block) >= MetadataBlockSize \/ ~started
    THEN [clean |-> st.clean, mcp |-> st.mcp \o block]
    ELSE [clean |-> st.clean \o block, mcp |-> st.mcp]

InLoop == pc = "lines" /\ i <= Len(lines)

\* BlankLine as a loop that does not move to the next line on `continue`
BlankLine_NoContinue ==
    /\ InLoop
    /\ Strip(lines[i]) = ""
    /\ mcp_lines' = Append(mcp_lines, lines[i])
    /\ UNCHANGED <<LegacyVars, calls, response, round, pc, after_thinking, thinking_content,
                   clean_response, all_mcp_data, lines, i, clean_lines,
                   human_content_started, in_metadata_block, metadata_block_lines,
                   mcp_data, result>>

\* lines 393-401
BlankLine ==
    /\ InLoop
    /\ Strip(lines[i]) = ""
    /\ IF in_metadata_block
       THEN /\ metadata_block_lines' = Append(metadata_block_lines, lines[i])
            /\ UNCHANGED <<clean_lines, mcp_lines>>
       ELSE IF human_content_started
       THEN /\ clean_lines' = Append(clean_lines, lines[i])
            /\ UNCHANGED <<mcp_lines, metadata_block_lines>>
       ELSE /\ mcp_lines' = Append(mcp_lines, lines[i])
            /\ UNCHANGED <<clean_lines, metadata_block_lines>>
    /\ i' = i + 1
    /\ UNCHANGED <<LegacyVars, calls, response, round, pc, after_thinking, thinking_content, clean_response,
                   all_mcp_data, lines, human_content_started, in_metadata_block,
                   mcp_data, result>>

\* lines 404-414
MetadataLine ==
    /\ InLoop
    /\ Strip(lines[i]) # ""
    /\ IsMetadata(Strip(lines[i]))
    /\ in_metadata_block' = TRUE
    /\ metadata_block_lines' =
          IF in_metadata_block THEN Append(metadata_block_lines, lines[i]) ELSE <<lines[i]>>
    /\ i' = i + 1
    /\ UNCHANGED <<LegacyVars, calls, response, round, pc, after_thinking, thinking_content, clean_response,
                   all_mcp_data, lines, clean_lines, mcp_lines, human_content_started,
                   mcp_data, result>>

\* lines 415-447
HumanLine ==
    /\ InLoop
    /\ Strip(lines[i]) # ""
    /\ ~IsMetadata(Strip(lines[i]))
    /\ LET st == IF in_metadata_block
                 THEN ResolveBlock([clean |-> clean_lines, mcp |-> mcp_lines],
                                   metadata_block_lines, human_content_started)
                 ELSE [clean |-> clean_lines, mcp |-> mcp_lines]
       IN  /\ clean_lines' = Append(st.clean, lines[i])
           /\ mcp_lines' = st.mcp
    /\ in_metadata_block' = FALSE
    /\ metadata_block_lines' = IF in_metadata_block THEN <<>> ELSE metadata_block_lines
    /\ human_content_started' =
          (human_content_started \/ StartsHumanContent(Strip(lines[i])))
    /\ i' = i + 1
    /\ UNCHANGED <<LegacyVars, calls, response, round, pc, after_thinking, thinking_content, clean_response,
                   all_mcp_data, lines, mcp_data, result>>

\* JoinData as a join of the parts by one line break
JoinData_OneLineBreak(parts) == IF parts = <<>> THEN None ELSE Some(Strip(Join("\n", parts)))

\* line 467 and line 483: '\n\n'.join(parts).strip() if parts else None
JoinData(parts) == IF parts = <<>> THEN None ELSE Some(Strip(Join("\n\n", parts)))

\* FinishLines as an end of the loop without the final flush of lines 449-454
FinishLines_NoFlush ==
    /\ pc = "lines"
    /\ i > Len(lines)
    /\ LET data == IF mcp_lines # <<>>
                   THEN Append(all_mcp_data, Join("\n", mcp_lines))
                   ELSE all_mcp_data
       IN  /\ clean_response' = CollapseNewlines(Strip(Join("\n", clean_lines)))
           /\ all_mcp_data' = data
           /\ mcp_data' = JoinData(data)
    /\ pc' = "safety"
    /\ UNCHANGED <<LegacyVars, calls, response, round, after_thinking, thinking_content, lines, i,
                   clean_lines, mcp_lines, human_content_started, in_metadata_block,
                   metadata_block_lines, result>>

\* lines 449-467, once the loop has read every line
FinishLines ==
    /\ pc = "lines"
    /\ i > Len(lines)
    /\ LET st == IF in_metadata_block /\ metadata_block_lines # <<>>
                 THEN ResolveBlock([clean |-> clean_lines, mcp |-> mcp_lines],
                                   metadata_block_lines, human_content_started)
                 ELSE [clean |-> clean_lines, mcp |-> mcp_lines]
           data == IF st.mcp # <<>>
                   THEN Append(all_mcp_data, Join("\n", st.mcp))
                   ELSE all_mcp_data
       IN  /\ clean_lines' = st.clean
           /\ mcp_lines' = st.mcp
           /\ clean_response' = CollapseNewlines(Strip(Join("\n", st.clean)))
           /\ all_mcp_data' = data
           /\ mcp_data' = JoinData(data)
    /\ pc' = "safety"
    /\ UNCHANGED <<LegacyVars, calls, response, round, after_thinking, thinking_content, lines, i,
                   human_content_started, in_metadata_block, metadata_block_lines, result>>

\* RemovedTooMuch measured against the argument of process_agent_response,
\* reasoning blocks included
RemovedTooMuch_OfRawInput(clean, original) ==
    clean # "" /\ 100 * Len(clean) < SafetyNetPercent * Len(response)

\* line 470: clean_response and len(clean_response) < len(response) * 0.25
RemovedTooMuch(clean, original) ==
    clean # "" /\ 100 * Len(clean) < SafetyNetPercent * Len(original)

\* lines 472-485: the markup blocks alone are removed from the input
SimpleClean(original) ==
    LET st == RemoveMarkup([text |-> original, data |-> <<>>],
                           function_call_patterns \o result_patterns)
    IN  [narrative |-> Strip(CollapseNewlines(st.text)),
         structuredData |-> JoinData(st.data)]

\* lines 469-485, then 513
ReturnSimple ==
    /\ pc = "safety"
    /\ RemovedTooMuch(clean_response, after_thinking)
    /\ LET simple == SimpleClean(after_thinking)
       IN  result' = [narrative |-> simple.narrative,
                      reasoning |-> thinking_content,
                      structuredData |-> simple.structuredData]
    /\ pc' = "done"
    /\ UNCHANGED <<LegacyVars, calls, response, round, after_thinking, thinking_content, clean_response,
                   all_mcp_data, mcp_data, LoopVars>>

\* lines 487-489, then 513
ReturnOriginal ==
    /\ pc = "safety"
    /\ ~RemovedTooMuch(clean_response, after_thinking)
    /\ clean_response = ""
    /\ Strip(after_thinking) # ""
    /\ result' = [narrative |-> Strip(after_thinking),
                  reasoning |-> thinking_content,
                  structuredData |-> mcp_data]
    /\ pc' = "done"
    /\ UNCHANGED <<LegacyVars, calls, response, round, after_thinking, thinking_content, clean_response,
                   all_mcp_data, mcp_data, LoopVars>>

\* line 491, then 513
ReturnClean ==
    /\ pc = "safety"
    /\ ~RemovedTooMuch(clean_response, after_thinking)
    /\ ~(clean_response = "" /\ Strip(after_thinking) # "")
    /\ result' = [narrative |-> clean_response,
                  reasoning |-> thinking_content,
                  structuredData |-> mcp_data]
    /\ pc' = "done"
    /\ UNCHANGED <<LegacyVars, calls, response, round, after_thinking, thinking_content, clean_response,
                   all_mcp_data, mcp_data, LoopVars>>

\* the caller passes the narrative it was given to process_agent_response again
Reprocess ==
    /\ pc = "done"
    /\ round = 1
    /\ response' = result.narrative
    /\ round' = 2
    /\ pc' = "start"
    /\ after_thinking' = ""
    /\ thinking_content' = None
    /\ clean_response' = ""
    /\ all_mcp_data' = <<>>
    /\ lines' = <<>>
    /\ i' = 1
    /\ clean_lines' = <<>>
    /\ mcp_lines' = <<>>
    /\ human_content_started' = FALSE
    /\ in_metadata_block' = FALSE
    /\ metadata_block_lines' = <<>>
    /\ mcp_data' = None
    /\ result' = NoResult
    /\ UNCHANGED <<LegacyVars, calls>>

Next ==
    \/ ProcessThinking
    \/ ReturnEmpty
    \/ RemoveFunctionCalls
    \/ RemoveFunctionResults
    \/ ExtractJson
    \/ BlankLine
    \/ MetadataLine
    \/ HumanLine
    \/ FinishLines
    \/ ReturnSimple
    \/ ReturnOriginal
    \/ ReturnClean
    \/ Reprocess

Spec == Init /\ [][Next]_vars

(***************************************************************************)
(* The calls as functions of their argument: what one invocation computes  *)
(* from its argument and its own locals.                                   *)
(***************************************************************************)

\* lines 391-447: one iteration of the loop, on `line`.  st is the loop
\* state [clean, mcp, started, in_block, block].
ClassifyLine(st, line) ==
    LET line_stripped == Strip(line)
        ended == IF st.in_block
                 THEN ResolveBlock([clean |-> st.clean, mcp |-> st.mcp], st.block, st.started)
                 ELSE [clean |-> st.clean, mcp |-> st.mcp]
    IN  IF line_stripped = ""
        THEN IF st.in_block THEN [st EXCEPT !.block = Append(@, line)]
             ELSE IF st.started THEN [st EXCEPT !.clean = Append(@, line)]
             ELSE [st EXCEPT !.mcp = Append(@, line)]
        ELSE IF IsMetadata(line_stripped)
        THEN [st EXCEPT !.in_block = TRUE,
                        !.block = IF st.in_block THEN Append(@, line) ELSE <<line>>]
        ELSE [clean |-> Append(ended.clean, line),
              mcp |-> ended.mcp,
              started |-> (st.started \/ StartsHumanContent(line_stripped)),
              in_block |-> FALSE,
              block |-> IF st.in_block THEN <<>> ELSE st.block]

RECURSIVE ClassifyLines(_, _, _)
\* line 390: for i, line in enumerate(lines), from the k-th line on
ClassifyLines(st, ls, k) ==
    IF k > Len(ls) THEN st ELSE ClassifyLines(ClassifyLine(st, ls[k]), ls, k + 1)

\* lines 306-491
process_mcp_response_enhanced(text) ==
    IF Strip(text) = "" THEN [clean_response |-> "", mcp_data |-> None]
    ELSE LET calls_removed == RemoveMarkup([text |-> text, data |-> <<>>], function_call_patterns)
             results_removed == RemoveMarkup(calls_removed, result_patterns)
             json_removed == RemoveJson(results_removed, json_patterns)
             looped == ClassifyLines([clean |-> <<>>, mcp |-> <<>>, started |-> FALSE,
                                      in_block |-> FALSE, block |-> <<>>],
                                     Split(json_removed.text), 1)
             st == IF looped.in_block /\ looped.block # <<>>
                   THEN ResolveBlock([clean |-> looped.clean, mcp |-> looped.mcp],
                                     looped.block, looped.started)
                   ELSE [clean |-> looped.clean, mcp |-> looped.mcp]
             data == IF st.mcp # <<>>
                     THEN Append(json_removed.data, Join("\n", st.mcp))
                     ELSE json_removed.data
             clean == CollapseNewlines(Strip(Join("\n", st.clean)))
             simple == SimpleClean(text)
         IN  IF RemovedTooMuch(clean, text)
             THEN [clean_response |-> simple.narrative, mcp_data |-> simple.structuredData]
             ELSE IF clean = ""
             THEN [clean_response |-> Strip(text), mcp_data |-> JoinData(data)]
             ELSE [clean_response |-> clean, mcp_data |-> JoinData(data)]

\* lines 494-513
process_agent_response(text) ==
    LET thought == process_thinking_response(text)
        filtered == process_mcp_response_enhanced(thought.clean_response)
    IN  [narrative |-> filtered.clean_response,
         reasoning |-> thought.thinking_content,
         structuredData |-> filtered.mcp_data]

(***************************************************************************)
(* Several invocations of process_agent_response side by side (threads of  *)
(* the caller).  An invocation has its argument and its frame of locals;   *)
(* one invocation runs at a time, on the variables of the single call, and *)
(* the runtime may switch to another invocation between any two steps.     *)
(* `calls` holds the arguments, the invocation that runs and the frames of *)
(* the invocations.                                                        *)
(***************************************************************************)
MaxCalls == 2
Procs == 1..MaxCalls

\* the arguments of the concurrent invocations
ConcurrentInputs ==
    {"", "Hi", "k: 1", "<think>a</think>Hi", "<THINK>b</THINK>",
     "<fnr>x</fnr>\nHere is the answer you need.", "{id} x", "Hi\n\nk: 1\n<think>"}

\* Frame as it would be if the locals were kept in one place for all
\* invocations (module-level variables)
Frame_Shared(p) == 1

\* the frame that holds the locals of invocation p: every call has its own
\* (the names bound in the functions are locals of the call)
Frame(p) == p

\* the locals of the invocation that runs
Locals ==
    [response |-> response, pc |-> pc, after_thinking |-> after_thinking,
     thinking_content |-> thinking_content, clean_response |-> clean_response,
     all_mcp_data |-> all_mcp_data, lines |-> lines, i |-> i,
     clean_lines |-> clean_lines, mcp_lines |-> mcp_lines,
     human_content_started |-> human_content_started,
     in_metadata_block |-> in_metadata_block,
     metadata_block_lines |-> metadata_block_lines, mcp_data |-> mcp_data,
     result |-> result]

\* the frame of a call on `arg` that has not taken a step
NewFrame(arg) ==
    [response |-> arg, pc |-> "start", after_thinking |-> "",
     thinking_content |-> None, clean_response |-> "", all_mcp_data |-> <<>>,
     lines |-> <<>>, i |-> 1, clean_lines |-> <<>>, mcp_lines |-> <<>>,
     human_content_started |-> FALSE, in_metadata_block |-> FALSE,
     metadata_block_lines |-> <<>>, mcp_data |-> None, result |-> NoResult]

ConcurrentInit ==
    /\ calls \in {[arg |-> a, running |-> 1,
                   frame |-> [p \in Procs |-> NewFrame(a[p])]] :
                        a \in [Procs -> ConcurrentInputs]}
    /\ response = calls.arg[1]
    /\ round = 1
    /\ pc = "start"
    /\ Fresh

\* the runtime suspends the invocation that runs and resumes invocation q:
\* the locals of the first stay in its frame, those of q are read from q's
Switch(q) ==
    /\ q # calls.running
    /\ LET saved == [calls.frame EXCEPT ![Frame(calls.running)] = Locals]
           resumed == saved[Frame(q)]
       IN  /\ calls' = [calls EXCEPT !.frame = saved, !.running = q]
           /\ response' = resumed.response
           /\ pc' = resumed.pc
           /\ after_thinking' = resumed.after_thinking
           /\ thinking_content' = resumed.thinking_content
           /\ clean_response' = resumed.clean_response
           /\ all_mcp_data' = resumed.all_mcp_data
           /\ lines' = resumed.lines
           /\ i' = resumed.i
           /\ clean_lines' = resumed.clean_lines
           /\ mcp_lines' = resumed.mcp_lines
           /\ human_content_started' = resumed.human_content_started
           /\ in_metadata_block' = resumed.in_metadata_block
           /\ metadata_block_lines' = resumed.metadata_block_lines
           /\ mcp_data' = resumed.mcp_data
           /\ result' = resumed.result
    /\ UNCHANGED <<round, LegacyVars>>

ConcurrentNext ==
    \/ ProcessThinking
    \/ ReturnEmpty
    \/ RemoveFunctionCalls
    \/ RemoveFunctionResults
    \/ ExtractJson
    \/ BlankLine
    \/ MetadataLine
    \/ HumanLine
    \/ FinishLines
    \/ ReturnSimple
    \/ ReturnOriginal
    \/ ReturnClean
    \/ \E q \in Procs : Switch(q)

ConcurrentSpec == ConcurrentInit /\ [][ConcurrentNext]_vars

\* the locals of invocation p, whether it runs or waits
LocalsOf(p) == IF p = calls.running THEN Locals ELSE calls.frame[Frame(p)]

(***************************************************************************)
(* process_mcp_response: the line predicates.  Each pattern of             *)
(* mcp_patterns is re.match(pattern, line_stripped, re.MULTILINE |         *)
(* re.IGNORECASE): anchored at the start of the line, letters compared     *)
(* without case.  A line holds no line break, so '.' and [^\n] take any    *)
(* character and '$' is the end of the line.                               *)
(***************************************************************************)
Letters == UpperChars \cup LowerChars
AlnumChars == Letters \cup DigitChars
DomainChars == AlnumChars \cup {"_", "-"}
Base64Chars == AlnumChars \cup {"+", "/", "="}
HexChars == DigitChars \cup {"a", "b", "c", "d", "e", "f", "A", "B", "C", "D", "E", "F"}
PathChars == WordChars \cup {"/", "\\", ".", "-"}

RECURSIVE ReplaceAllWith(_, _, _)
\* str.replace(old, new)
ReplaceAllWith(s, old, new) ==
    IF old = "" THEN s
    ELSE LET k == Find(s, old, 1)
         IN  IF k = 0 THEN s
             ELSE Sub(s, 1, k - 1) \o new \o ReplaceAllWith(From(s, k + Len(old)), old, new)

\* every character of s from position p on is of class C, and there is one
AllOf(s, p, C) == p <= Len(s) /\ RunEnd(s, p, C) = Len(s) + 1

\* line 112:  ^\s*[\{\[].*[\}\]]
McpBracketLine(s) ==
    LET st == RunEnd(s, 1, Whitespace)
    IN  /\ At(s, st) \in {"{", "["}
        /\ \E k \in (st + 1)..Len(s) : At(s, k) \in {"}", "]"}

\* line 113:  ^\s*"[^"]*":\s*
McpQuotedKey(s) ==
    LET st == RunEnd(s, 1, Whitespace)
        q == Find(s, "\"", st + 1)
    IN  At(s, st) = "\"" /\ q # 0 /\ At(s, q + 1) = ":"

\* line 115:  <[^>]+>[^<]*</[^>]+>
McpTagPair(s) ==
    LET g == Find(s, ">", 2)
        h == IF g = 0 THEN 0 ELSE Find(s, "<", g + 1)
        g2 == IF h = 0 THEN 0 ELSE Find(s, ">", h + 2)
    IN  /\ At(s, 1) = "<"
        /\ g >= 3
        /\ h # 0
        /\ At(s, h + 1) = "/"
        /\ g2 >= h + 3

\* line 117:  ^\s*[a-zA-Z_][a-zA-Z0-9_]*:\s*[^\n]+$
McpVariableKey(s) ==
    LET st == RunEnd(s, 1, Whitespace)
        e == RunEnd(s, st, WordChars)
    IN  /\ At(s, st) \in Letters \cup {"_"}
        /\ At(s, e) = ":"
        /\ e < Len(s)

\* line 118:  ^\s*[A-Z_]{2,}:\s*   (letters of either case: re.IGNORECASE)
McpCapsKey(s) ==
    LET st == RunEnd(s, 1, Whitespace)
        e == RunEnd(s, st, Letters \cup {"_"})
    IN  e - st >= 2 /\ At(s, e) = ":"

\* line 120:  ^(https?://[^\s]+|ftp://[^\s]+|file://[^\s]+)
McpUrl(s) ==
    \E scheme \in {"http://", "https://", "ftp://", "file://"} :
        /\ StartsAt(Lower(s), 1, scheme)
        /\ Len(s) > Len(scheme)
        /\ At(s, Len(scheme) + 1) \notin Whitespace

\* line 121:  ^\s*[a-zA-Z0-9_-]+\.[a-zA-Z0-9_-]+
McpDomain(s) ==
    LET st == RunEnd(s, 1, Whitespace)
        e == RunEnd(s, st, DomainChars)
    IN  e > st /\ At(s, e) = "." /\ At(s, e + 1) \in DomainChars

\* line 123:  ^[A-Za-z0-9+/=]{20,}$
McpBase64(s) == Len(s) >= 20 /\ AllOf(s, 1, Base64Chars)

\* line 124:  ^\d{4}-\d{2}-\d{2}T\d{2}:\d{2}:\d{2}
McpTimestamp(s) ==
    /\ Len(s) >= 19
    /\ \A k \in {1, 2, 3, 4, 6, 7, 9, 10, 12, 13, 15, 16, 18, 19} : At(s, k) \in DigitChars
    /\ At(s, 5) = "-"
    /\ At(s, 8) = "-"
    /\ At(s, 11) \in {"T", "t"}
    /\ At(s, 14) = ":"
    /\ At(s, 17) = ":"

\* line 125:  ^\s*[\w-]+:\s*\d+(\.\d+)?$
McpNumericPair(s) ==
    LET st == RunEnd(s, 1, Whitespace)
        e == RunEnd(s, st, WordChars \cup {"-"})
        b == RunEnd(s, e + 1, Whitespace)
        d1 == RunEnd(s, b, DigitChars)
    IN  /\ e > st
        /\ At(s, e) = ":"
        /\ d1 > b
        /\ OptSepDigits(s, d1, ".") = Len(s) + 1

\* line 127:  ^(ERROR|WARNING|INFO|DEBUG|TRACE|FATAL)[:|\s]
McpLogLevel(s) ==
    \E level \in {"error", "warning", "info", "debug", "trace", "fatal"} :
        /\ StartsAt(Lower(s), 1, level)
        /\ At(s, Len(level) + 1) \in {":", "|"} \cup Whitespace

\* line 128:  ^\s*\d{3}\s+
McpStatusCode(s) ==
    LET st == RunEnd(s, 1, Whitespace)
    IN  /\ \A k \in 0..2 : At(s, st + k) \in DigitChars
        /\ At(s, st + 3) \in Whitespace

\* line 130:  ^\s*[0-9a-fA-F]{8,}$
McpHex(s) ==
    LET st == RunEnd(s, 1, Whitespace)
    IN  Len(s) - st + 1 >= 8 /\ AllOf(s, st, HexChars)

\* line 131:  ^\s*[A-Z]{2,}_[A-Z_]+$   (letters of either case)
McpConstant(s) ==
    LET st == RunEnd(s, 1, Whitespace)
        e == RunEnd(s, st, Letters)
    IN  e - st >= 2 /\ At(s, e) = "_" /\ AllOf(s, e + 1, Letters \cup {"_"})

\* line 133:  ^\s*\w+\([^)]*\)
McpFunctionCall(s) ==
    LET st == RunEnd(s, 1, Whitespace)
        e == RunEnd(s, st, WordChars)
    IN  e > st /\ At(s, e) = "(" /\ Find(s, ")", e + 1) # 0

\* line 135:  ^[/\\][\w/\\.-]+$
McpPath(s) == At(s, 1) \in {"/", "\\"} /\ AllOf(s, 2, PathChars)

\* lines 107 and 137
JsonBlockMarker == "<JSON_BLOCK_REMOVED>"

\* line 137:  ^\s*<JSON_BLOCK_REMOVED>\s*$
McpMarker(s) == Lower(Strip(s)) = Lower(JsonBlockMarker)

\* lines 149-151: any pattern of mcp_patterns matches
MatchesMcpPattern(s) ==
    \/ McpBracketLine(s)
    \/ McpQuotedKey(s)
    \/ McpTagPair(s)
    \/ McpVariableKey(s)
    \/ McpCapsKey(s)
    \/ McpUrl(s)
    \/ McpDomain(s)
    \/ McpBase64(s)
    \/ McpTimestamp(s)
    \/ McpNumericPair(s)
    \/ McpLogLevel(s)
    \/ McpStatusCode(s)
    \/ McpHex(s)
    \/ McpConstant(s)
    \/ McpFunctionCall(s)
    \/ McpPath(s)
    \/ McpMarker(s)

(***************************************************************************)
(* process_mcp_response: looks_like_technical_data (lines 141-183)         *)
(***************************************************************************)

\* line 155: line_stripped.count(':')
ColonCount(s) == Cardinality({k \in 1..Len(s) : At(s, k) = ":"})

\* line 155: the number of colons from which a line is a data structure
ColonLimit == 2

\* HasManyColons with a limit of three colons
HasManyColons_Three(s) == ColonCount(s) >= ColonLimit + 1

\* line 155
HasManyColons(s) == ColonCount(s) >= ColonLimit

\* lines 159-160: more than 0.4 of the characters are neither alphanumeric
\* nor whitespace
MostlySymbols(s) ==
    LET non_alphanumeric ==
            Cardinality({k \in 1..Len(s) : At(s, k) \notin AlnumChars \cup Whitespace})
    IN  Len(s) > 0 /\ 10 * non_alphanumeric > 4 * Len(s)

RECURSIVE WordsFrom(_, _)
\* line 165: re.findall(r'\b[a-zA-Z]{3,}\b', s) from position p on: the
\* maximal runs of word characters that are letters only, three at least
WordsFrom(s, p) ==
    LET b == RunEndNot(s, p, WordChars)
        e == RunEnd(s, b, WordChars)
        run == Sub(s, b, e - 1)
    IN  IF b > Len(s) THEN <<>>
        ELSE (IF Len(run) >= 3 /\ AllOf(run, 1, Letters) THEN <<run>> ELSE <<>>)
             \o WordsFrom(s, e)

\* line 166
natural_words ==
    {"the", "is", "are", "and", "or", "but", "how", "what", "when", "where", "why",
     "this", "that", "with", "from", "they", "have", "will", "can", "should", "would",
     "could", "about", "into", "than", "only", "other", "more", "very", "also", "been",
     "which", "some", "like", "then", "now", "may"}

\* line 170: the number of words up to which a line with a colon and no
\* natural word is a key-value pair
KeyValueWords == 3

\* lines 164-171
KeyValueWithoutLanguage(s) ==
    LET words == WordsFrom(Lower(s), 1)
        has_natural_language == \E k \in 1..Len(words) : words[k] \in natural_words
    IN  Contains(s, ":") /\ ~has_natural_language /\ Len(words) <= KeyValueWords

\* line 174: len(line_stripped) > 2 and line_stripped.isupper() and '_' in it
UpperWithUnderscore(s) ==
    /\ Len(s) > 2
    /\ \E k \in 1..Len(s) : At(s, k) \in UpperChars
    /\ \A k \in 1..Len(s) : At(s, k) \notin LowerChars
    /\ Contains(s, "_")

\* line 178: ^\s*\w+\s*=\s*  and  ^\s*\w+\s*:=\s*  and  ^\s*set\s+\w+
LooksLikeAssignment(s) ==
    LET st == RunEnd(s, 1, Whitespace)
        e == RunEnd(s, st, WordChars)
        w == RunEnd(s, e, Whitespace)
        a == RunEnd(s, st + 3, Whitespace)
    IN  \/ e > st /\ At(s, w) = "="
        \/ e > st /\ Sub(s, w, w + 1) = ":="
        \/ StartsAt(Lower(s), st, "set") /\ a > st + 3 /\ At(s, a) \in WordChars

\* lines 141-183
looks_like_technical_data(line) ==
    LET line_stripped == Strip(line)
    IN  /\ line_stripped # ""
        /\ \/ MatchesMcpPattern(line_stripped)
           \/ HasManyColons(line_stripped)
           \/ MostlySymbols(line_stripped)
           \/ KeyValueWithoutLanguage(line_stripped)
           \/ UpperWithUnderscore(line_stripped)
           \/ LooksLikeAssignment(line_stripped)

(***************************************************************************)
(* process_mcp_response as a state machine (lines 83-303).  It shares the  *)
(* names response, lines, clean_lines, mcp_lines, human_content_started,   *)
(* clean_response, all_mcp_data and mcp_data with the enhanced function;   *)
(* it returns the pair (clean_response, mcp_data), held in `result` as     *)
(* narrative and structuredData.                                           *)
(***************************************************************************)

\* line 105: the length above which a JSON block is removed
JsonBlockLength == 50
\* line 229: the run of technical lines tolerated inside the narrative
TechnicalRunCap == 2
\* line 255: the share of the input, in percent, below which the first pass
\* counts as too aggressive
LegacySafetyPercent == 30
\* line 270: the least length of an ALL-CAPS key
Tier1CapsKeyLength == 3

RECURSIVE RemoveJsonBlocks(_, _)
\* lines 104-107; st is [text, parts]
RemoveJsonBlocks(st, json_blocks) ==
    IF json_blocks = <<>> THEN st
    ELSE RemoveJsonBlocks(
            IF Len(json_blocks[1]) > JsonBlockLength
            THEN [text |-> ReplaceAllWith(st.text, json_blocks[1],
                                          "\n" \o JsonBlockMarker \o "\n"),
                  parts |-> Append(st.parts, Strip(json_blocks[1]))]
            ELSE st,
            Tail(json_blocks))

\* a table of literal lines: blank, short and long narrative, two colons
\* among discourse words, one colon after the first word and one later in
\* the sentence, an ALL-CAPS key and a tag pair on one line
LegacyLineKinds ==
    {"", "Hi there", "Here is the answer you need.",
     "I said: this is what: the thing", "Note: this is the answer",
     "The process is simple: do it", "STATUS: ok", "<b>x</b>"}

\* a URL, a function call, an assignment and a line in braces, one or two
\* of them before a short or a long human text
TechnicalLineKinds == {"https://a.b/c", "foo(1)", "x = 1", "{a}"}
TechnicalPrefixInputs ==
    {Join("\n", ts) \o "\n" \o h :
        ts \in UNION {[1..n -> TechnicalLineKinds] : n \in 1..2},
        h \in {"Hi there", "Here is the answer you need."}}

\* a JSON object longer than JsonBlockLength, the same object inside
\* another one, and a human text
LongJsonObject == "{\"title\": \"A long title of a page\", \"url\": \"http://example.com/a\"}"
NestedJsonInputs ==
    {LongJsonObject \o "\n{" \o LongJsonObject \o "}\n" \o h :
        h \in {"Hi there", "Here is the answer you need."}}

LegacyInputs ==
    {Join("\n", ls) : ls \in UNION {[1..n -> LegacyLineKinds] : n \in 1..MaxLines}}
        \cup JsonInputs \cup TechnicalPrefixInputs \cup NestedJsonInputs

LegacyInit ==
    /\ response \in LegacyInputs
    /\ round = 1
    /\ pc = "legacy"
    /\ Fresh
    /\ calls = <<>>

\* the variables process_mcp_response has no counterpart of
EnhancedOnlyVars ==
    <<round, after_thinking, thinking_content, in_metadata_block, metadata_block_lines, calls>>

\* lines 97-107 and 185-189
FindJsonBlocks ==
    /\ pc = "legacy"
    /\ LET st == RemoveJsonBlocks([text |-> response, parts |-> <<>>],
                                  FindAllBracketed(response, 1, "{", "}"))
       IN  /\ response_no_json' = st.text
           /\ json_data_parts' = st.parts
           /\ lines' = Split(st.text)
    /\ i' = 1
    /\ clean_lines' = <<>>
    /\ mcp_lines' = <<>>
    /\ human_content_started' = FALSE
    /\ consecutive_technical_lines' = 0
    /\ pc' = "legacy_lines"
    /\ UNCHANGED <<EnhancedOnlyVars, response, clean_response, all_mcp_data, mcp_data,
                   result, in_technical_block>>

InLegacyLoop == pc = "legacy_lines" /\ i <= Len(lines)

\* LegacyBlankLine as a step that also sets the counter of consecutive
\* technical lines back to 0
LegacyBlankLine_ResetsCounter ==
    /\ InLegacyLoop
    /\ Strip(lines[i]) = ""
    /\ IF human_content_started
       THEN clean_lines' = Append(clean_lines, lines[i]) /\ UNCHANGED mcp_lines
       ELSE IF mcp_lines # <<>>
       THEN mcp_lines' = Append(mcp_lines, lines[i]) /\ UNCHANGED clean_lines
       ELSE UNCHANGED <<clean_lines, mcp_lines>>
    /\ consecutive_technical_lines' = 0
    /\ i' = i + 1
    /\ UNCHANGED <<EnhancedOnlyVars, response, pc, lines, clean_response, all_mcp_data,
                   mcp_data, result, human_content_started, response_no_json,
                   json_data_parts, in_technical_block>>

\* lines 195-200
LegacyBlankLine ==
    /\ InLegacyLoop
    /\ Strip(lines[i]) = ""
    /\ IF human_content_started
       THEN clean_lines' = Append(clean_lines, lines[i]) /\ UNCHANGED mcp_lines
       ELSE IF mcp_lines # <<>>
       THEN mcp_lines' = Append(mcp_lines, lines[i]) /\ UNCHANGED clean_lines
       ELSE UNCHANGED <<clean_lines, mcp_lines>>
    /\ i' = i + 1
    /\ UNCHANGED <<EnhancedOnlyVars, response, pc, lines, clean_response, all_mcp_data,
                   mcp_data, result, human_content_started, response_no_json,
                   json_data_parts, consecutive_technical_lines, in_technical_block>>

\* lines 203-204
LegacySkipMarker ==
    /\ InLegacyLoop
    /\ Strip(lines[i]) = JsonBlockMarker
    /\ i' = i + 1
    /\ UNCHANGED <<EnhancedOnlyVars, response, pc, lines, clean_lines, mcp_lines,
                   clean_response, all_mcp_data, mcp_data, result, human_content_started,
                   response_no_json, json_data_parts, consecutive_technical_lines,
                   in_technical_block>>

\* LegacyTechnicalLine as a loop that keeps every technical line in the
\* narrative lines
LegacyTechnicalLine_KeepsAll ==
    /\ InLegacyLoop
    /\ Strip(lines[i]) # ""
    /\ Strip(lines[i]) # JsonBlockMarker
    /\ looks_like_technical_data(lines[i])
    /\ clean_lines' = Append(clean_lines, lines[i])
    /\ consecutive_technical_lines' = 0
    /\ i' = i + 1
    /\ UNCHANGED <<EnhancedOnlyVars, response, pc, lines, mcp_lines, clean_response,
                   all_mcp_data, mcp_data, result, human_content_started,
                   response_no_json, json_data_parts, in_technical_block>>

\* LegacyTechnicalLine as a loop that counts the technical lines it keeps in
\* the narrative instead of setting the counter back to 0
LegacyTechnicalLine_CountsKept ==
    /\ InLegacyLoop
    /\ Strip(lines[i]) # ""
    /\ Strip(lines[i]) # JsonBlockMarker
    /\ looks_like_technical_data(lines[i])
    /\ IF ~human_content_started \/ consecutive_technical_lines >= 2
       THEN /\ mcp_lines' = Append(mcp_lines, lines[i])
            /\ UNCHANGED clean_lines
       ELSE /\ clean_lines' = Append(clean_lines, lines[i])
            /\ UNCHANGED mcp_lines
    /\ consecutive_technical_lines' = consecutive_technical_lines + 1
    /\ i' = i + 1
    /\ UNCHANGED <<EnhancedOnlyVars, response, pc, lines, clean_response, all_mcp_data,
                   mcp_data, result, human_content_started, response_no_json,
                   json_data_parts, in_technical_block>>

\* lines 206 and 226-232, 237-240: a technical line
LegacyTechnicalLine ==
    /\ InLegacyLoop
    /\ Strip(lines[i]) # ""
    /\ Strip(lines[i]) # JsonBlockMarker
    /\ looks_like_technical_data(lines[i])
    /\ IF ~human_content_started
       THEN /\ mcp_lines' = Append(mcp_lines, lines[i])
            /\ consecutive_technical_lines' = consecutive_technical_lines + 1
            /\ UNCHANGED clean_lines
       ELSE IF consecutive_technical_lines < TechnicalRunCap
       THEN /\ clean_lines' = Append(clean_lines, lines[i])
            /\ consecutive_technical_lines' = 0
            /\ UNCHANGED mcp_lines
       ELSE /\ mcp_lines' = Append(mcp_lines, lines[i])
            /\ consecutive_technical_lines' = consecutive_technical_lines + 1
            /\ UNCHANGED clean_lines
    /\ i' = i + 1
    /\ UNCHANGED <<EnhancedOnlyVars, response, pc, lines, clean_response, all_mcp_data,
                   mcp_data, result, human_content_started, response_no_json,
                   json_data_parts, in_technical_block>>

\* lines 206-224 and 233-236: a line that is not technical.  Whether or not
\* lines 219-224 take it for the start of the human content, lines 234-236
\* assign the same values.
LegacyNarrativeLine ==
    /\ InLegacyLoop
    /\ Strip(lines[i]) # ""
    /\ Strip(lines[i]) # JsonBlockMarker
    /\ ~looks_like_technical_data(lines[i])
    /\ human_content_started' = TRUE
    /\ clean_lines' = Append(clean_lines, lines[i])
    /\ consecutive_technical_lines' = 0
    /\ i' = i + 1
    /\ UNCHANGED <<EnhancedOnlyVars, response, pc, lines, mcp_lines, clean_response,
                   all_mcp_data, mcp_data, result, response_no_json, json_data_parts,
                   in_technical_block>>

\* lines 246-250 and 291-295
CombineData(parts, technical) ==
    parts \o (IF technical # <<>> THEN <<Join("\n", technical)>> ELSE <<>>)

\* lines 243-252, once the loop has read every line
LegacyFinish ==
    /\ pc = "legacy_lines"
    /\ i > Len(lines)
    /\ clean_response' = Strip(Join("\n", clean_lines))
    /\ all_mcp_data' = CombineData(json_data_parts, mcp_lines)
    /\ mcp_data' = JoinData(CombineData(json_data_parts, mcp_lines))
    /\ pc' = "legacy_check"
    /\ UNCHANGED <<EnhancedOnlyVars, response, lines, i, clean_lines, mcp_lines, result,
                   human_content_started, LegacyVars>>

\* line 255: clean_response and len(clean_response) < len(response) * 0.3
TooAggressive(clean, original) ==
    clean # "" /\ 100 * Len(clean) < LegacySafetyPercent * Len(original)

\* lines 255-262: the first pass kept too little, start over on the input
StartTier1 ==
    /\ pc = "legacy_check"
    /\ TooAggressive(clean_response, response)
    /\ lines' = Split(response)
    /\ i' = 1
    /\ clean_lines' = <<>>
    /\ mcp_lines' = <<>>
    /\ in_technical_block' = FALSE
    /\ pc' = "tier1"
    /\ UNCHANGED <<EnhancedOnlyVars, response, clean_response, all_mcp_data, mcp_data,
                   result, human_content_started, response_no_json, json_data_parts,
                   consecutive_technical_lines>>

\* line 270: re.match(r'^\s*[A-Z_]{3,}:\s*', line_stripped)
Tier1CapsKey(s) ==
    LET st == RunEnd(s, 1, Whitespace)
        e  == RunEnd(s, st, CapsKeyChars)
    IN  e - st >= Tier1CapsKeyLength /\ At(s, e) = ":"

\* lines 267-270
ObviouslyTechnical(line_stripped) ==
    \/ StartsAt(line_stripped, 1, "{")
    \/ StartsAt(line_stripped, 1, "[")
    \/ StartsAt(line_stripped, 1, "<") /\ At(line_stripped, Len(line_stripped)) = ">"
    \/ Tier1CapsKey(line_stripped)

\* line 282: any(pattern in line_stripped for pattern in ['{', '[', ':', '=', '<'])
HasTechnicalSign(line_stripped) ==
    \E k \in 1..Len(line_stripped) : At(line_stripped, k) \in {"{", "[", ":", "=", "<"}

InTier1Loop == pc = "tier1" /\ i <= Len(lines)

\* lines 267-272
Tier1TechnicalLine ==
    /\ InTier1Loop
    /\ ObviouslyTechnical(Strip(lines[i]))
    /\ in_technical_block' = TRUE
    /\ mcp_lines' = Append(mcp_lines, lines[i])
    /\ i' = i + 1
    /\ UNCHANGED <<EnhancedOnlyVars, response, pc, lines, clean_lines, clean_response,
                   all_mcp_data, mcp_data, result, human_content_started,
                   response_no_json, json_data_parts, consecutive_technical_lines>>

\* lines 273-274
Tier1NarrativeLine ==
    /\ InTier1Loop
    /\ ~ObviouslyTechnical(Strip(lines[i]))
    /\ Strip(lines[i]) # ""
    /\ ~in_technical_block
    /\ clean_lines' = Append(clean_lines, lines[i])
    /\ i' = i + 1
    /\ UNCHANGED <<EnhancedOnlyVars, response, pc, lines, mcp_lines, clean_response,
                   all_mcp_data, mcp_data, result, human_content_started, LegacyVars>>

\* lines 275-279
Tier1BlankLine ==
    /\ InTier1Loop
    /\ ~ObviouslyTechnical(Strip(lines[i]))
    /\ Strip(lines[i]) = ""
    /\ IF clean_lines # <<>>
       THEN clean_lines' = Append(clean_lines, lines[i]) /\ UNCHANGED mcp_lines
       ELSE mcp_lines' = Append(mcp_lines, lines[i]) /\ UNCHANGED clean_lines
    /\ i' = i + 1
    /\ UNCHANGED <<EnhancedOnlyVars, response, pc, lines, clean_response, all_mcp_data,
                   mcp_data, result, human_content_started, LegacyVars>>

\* lines 280-286: a line after a technical one
Tier1AmbiguousLine ==
    /\ InTier1Loop
    /\ ~ObviouslyTechnical(Strip(lines[i]))
    /\ Strip(lines[i]) # ""
    /\ in_technical_block
    /\ IF ~HasTechnicalSign(Strip(lines[i]))
       THEN /\ clean_lines' = Append(clean_lines, lines[i])
            /\ in_technical_block' = FALSE
            /\ UNCHANGED mcp_lines
       ELSE /\ mcp_lines' = Append(mcp_lines, lines[i])
            /\ UNCHANGED <<clean_lines, in_technical_block>>
    /\ i' = i + 1
    /\ UNCHANGED <<EnhancedOnlyVars, response, pc, lines, clean_response, all_mcp_data,
                   mcp_data, result, human_content_started, response_no_json,
                   json_data_parts, consecutive_technical_lines>>

\* lines 288-297
Tier1Finish ==
    /\ pc = "tier1"
    /\ i > Len(lines)
    /\ clean_response' = Strip(Join("\n", clean_lines))
    /\ all_mcp_data' = CombineData(json_data_parts, mcp_lines)
    /\ mcp_data' = JoinData(CombineData(json_data_parts, mcp_lines))
    /\ pc' = "legacy_return"
    /\ UNCHANGED <<EnhancedOnlyVars, response, lines, i, clean_lines, mcp_lines, result,
                   human_content_started, LegacyVars>>

\* the function is at its return statements: after tier 1, or at line 255
\* when its condition is false
AtLegacyReturn ==
    \/ pc = "legacy_return"
    \/ pc = "legacy_check" /\ ~TooAggressive(clean_response, response)

\* lines 300-301
LegacyReturnOriginal ==
    /\ AtLegacyReturn
    /\ clean_response = "" /\ Strip(response) # ""
    /\ result' = [narrative |-> Strip(response), reasoning |-> None,
                  structuredData |-> mcp_data]
    /\ pc' = "legacy_done"
    /\ UNCHANGED <<EnhancedOnlyVars, response, lines, i, clean_lines, mcp_lines,
                   clean_response, all_mcp_data, mcp_data, human_content_started,
                   LegacyVars>>

\* line 303
LegacyReturnClean ==
    /\ AtLegacyReturn
    /\ ~(clean_response = "" /\ Strip(response) # "")
    /\ result' = [narrative |-> clean_response, reasoning |-> None,
                  structuredData |-> mcp_data]
    /\ pc' = "legacy_done"
    /\ UNCHANGED <<EnhancedOnlyVars, response, lines, i, clean_lines, mcp_lines,
                   clean_response, all_mcp_data, mcp_data, human_content_started,
                   LegacyVars>>

LegacyNext ==
    \/ FindJsonBlocks
    \/ LegacyBlankLine
    \/ LegacySkipMarker
    \/ LegacyTechnicalLine
    \/ LegacyNarrativeLine
    \/ LegacyFinish
    \/ StartTier1
    \/ Tier1TechnicalLine
    \/ Tier1NarrativeLine
    \/ Tier1BlankLine
    \/ Tier1AmbiguousLine
    \/ Tier1Finish
    \/ LegacyReturnOriginal
    \/ LegacyReturnClean

LegacySpec == LegacyInit /\ [][LegacyNext]_vars

LegacyReturned == pc = "legacy_done"

\* the module is entered by either of its two classifiers:
\* process_agent_response (line 494) or process_mcp_response (line 83)
EitherSpec == (Init \/ LegacyInit) /\ [][Next \/ LegacyNext]_vars

(***************************************************************************)
(* Vocabulary of the properties: the reasoning tags of a text, stated by   *)
(* position and not by the scan of BlockSpans.                             *)
(***************************************************************************)

IsOpenAt(s, p) == Lower(Sub(s, p, p + Len(ThinkOpen) - 1)) = ThinkOpen
OpenPositions(s) ==
    LET l == Lower(s) IN {p \in 1..Len(s) : StartsAt(l, p, ThinkOpen)}
ClosePositions(s) ==
    LET l == Lower(s) IN {p \in 1..Len(s) : StartsAt(l, p, ThinkClose)}

\* an opening tag with the nearest closing tag after it, as a span
CandidatePairs(s) ==
    LET closes == ClosePositions(s)
        near(p) == LET after == {q \in closes : q >= p + Len(ThinkOpen)}
                   IN  IF after = {} THEN 0 ELSE Min(after)
    IN  {<<p, near(p) + Len(ThinkClose)>> : p \in {o \in OpenPositions(s) : near(o) # 0}}

\* the complete pairs: the candidates whose opening tag is not inside an
\* earlier complete pair
CompletePairs(s) ==
    LET cands == CandidatePairs(s)
    IN  CHOOSE P \in SUBSET cands :
            \A c \in cands : c \in P <=> \A q \in P : ~(q[1] < c[1] /\ c[1] < q[2])

RECURSIVE InOrder(_)
\* a set of spans as a sequence, in their order of appearance
InOrder(P) ==
    IF P = {} THEN <<>>
    ELSE LET first == CHOOSE q \in P : \A r \in P : q[1] <= r[1]
         IN  <<first>> \o InOrder(P \ {first})

\* the content between the tags of a pair, and the same trimmed
Inner(s, pair) == Sub(s, pair[1] + Len(ThinkOpen), pair[2] - Len(ThinkClose) - 1)
InnerTrimmed(s, pair) == Strip(Inner(s, pair))

RECURSIVE OutsideWithin(_, _, _, _)
\* the characters of s at positions a..b that lie in no span of P
OutsideWithin(s, P, a, b) ==
    IF a > b THEN ""
    ELSE IF a = b THEN (IF \E q \in P : q[1] <= a /\ a < q[2] THEN "" ELSE At(s, a))
    ELSE LET half == (a + b) \div 2
         IN  OutsideWithin(s, P, a, half) \o OutsideWithin(s, P, half + 1, b)

\* the characters of s from position p on that lie in no span of P
Outside(s, P, p) == OutsideWithin(s, P, p, Len(s))

\* the contents of the complete pairs, trimmed, joined by a blank line
JoinedReasoning(s) ==
    LET ord == InOrder(CompletePairs(s))
    IN  Join("\n\n", [k \in 1..Len(ord) |-> InnerTrimmed(s, ord[k])])

\* the opening tags with no closing tag anywhere after them
UnclosedOpens(s) ==
    LET closes == ClosePositions(s)
    IN  {p \in OpenPositions(s) : \A q \in closes : q < p}

RECURSIVE NestingDepth(_, _, _, _)
\* the tags of positions p.. read as nested brackets: an opening tag opens,
\* a closing tag closes the latest opening tag still open; the number of
\* opening tags left open at the end
NestingDepth(opens, closes, p, depth) ==
    LET rest == {q \in opens \cup closes : q >= p}
        t == Min(rest)
    IN  IF rest = {} THEN depth
        ELSE IF t \in opens THEN NestingDepth(opens, closes, t + 1, depth + 1)
        ELSE IF depth > 0 THEN NestingDepth(opens, closes, t + 1, depth - 1)
        ELSE NestingDepth(opens, closes, t + 1, depth)

\* the number of opening tags of s with no closing tag of their own
NestingUnclosed(s) == NestingDepth(OpenPositions(s), ClosePositions(s), 1, 0)

AllMarkupPatterns == function_call_patterns \o result_patterns

\* the text holds a complete tool markup block
HasMarkupBlock(s) ==
    \E k \in 1..Len(AllMarkupPatterns) : FindAllMarkup(AllMarkupPatterns[k], s) # <<>>

\* the text holds a brace- or bracket-delimited span
HasBracketSpan(s) ==
    \E k \in 1..Len(json_patterns) :
        FindAllBracketed(s, 1, json_patterns[k][1], json_patterns[k][2]) # <<>>

\* the call has returned
Returned == pc = "done"
\* process_thinking_response has returned (line 508)
ThinkingReturned == pc = "enhanced"

(***************************************************************************)
(* The properties.                                                         *)
(***************************************************************************)

\* C1: for every input whose trimmed form is non-empty, the narrative
\* returned by process_agent_response is not the empty string.
C1_NarrativeNeverEmpty ==
    (Returned /\ Strip(response) # "") => result.narrative # ""

\* C2: for every input with no reasoning tag, no tool markup block and no
\* brace/bracket span, the narrative is the trimmed input and reasoning and
\* structuredData are None.
C2_PlainTextUnchanged ==
    (/\ Returned
     /\ OpenPositions(response) = {}
     /\ ClosePositions(response) = {}
     /\ ~HasMarkupBlock(response)
     /\ ~HasBracketSpan(response))
    => result = [narrative |-> Strip(response), reasoning |-> None, structuredData |-> None]

\* C3: for the empty string and every whitespace-only string the result is
\* narrative "", reasoning None, structuredData None.
C3_BlankInput ==
    (Returned /\ Strip(response) = "")
    => result = [narrative |-> "", reasoning |-> None, structuredData |-> None]

\* C3 witness: a whitespace-only input of several characters has been processed
C3_Witness == Returned /\ Strip(response) = "" /\ Len(response) >= 2 /\ round = 1

\* C4: processing the narrative of a result again returns that narrative
\* unchanged, with reasoning None and structuredData None.
C4_Idempotent ==
    (Returned /\ round = 2)
    => result = [narrative |-> response, reasoning |-> None, structuredData |-> None]

\* C5 (as amended): process_thinking_response returns as reasoning the inner
\* contents of the complete pairs (any letter case), each trimmed, joined by
\* "\n\n" in order of appearance; the returned text is the input without
\* those spans, with runs of three or more line breaks collapsed to two and
\* the whole trimmed.
C5_ThinkingCollected ==
    ThinkingReturned =>
        LET pairs == CompletePairs(response)
        IN  /\ pairs # {} => thinking_content = Some(JoinedReasoning(response))
            /\ after_thinking = Strip(CollapseNewlines(Outside(response, pairs, 1)))

\* C5 witness: two pairs or more, one in upper case, one with content to trim
C5_Witness ==
    /\ ThinkingReturned
    /\ Cardinality(CompletePairs(response)) >= 2
    /\ \E q \in CompletePairs(response) : IsOpenAt(response, q[1]) /\ ~StartsAt(response, q[1], ThinkOpen)
    /\ \E q \in CompletePairs(response) : InnerTrimmed(response, q) # Inner(response, q)
    /\ after_thinking # ""

\* C5 (as claimed): ... the returned text is the input with those spans
\* removed.
C5_ReturnedTextIsInputWithoutSpans ==
    ThinkingReturned =>
        LET pairs == CompletePairs(response)
        IN  /\ pairs # {} => thinking_content = Some(JoinedReasoning(response))
            /\ after_thinking = Outside(response, pairs, 1)

\* C6: the reasoning returned by process_thinking_response is None exactly
\* when the input holds no opening tag followed by a closing tag; when the
\* one pair of the input has empty content the reasoning is "", not None.
C6_ReasoningAbsentIffNoPair ==
    ThinkingReturned =>
        /\ thinking_content = None
              <=> ~(\E o \in OpenPositions(response), c \in ClosePositions(response) :
                       c >= o + Len(ThinkOpen))
        /\ \A q \in CompletePairs(response) :
              (CompletePairs(response) = {q} /\ Inner(response, q) = "")
                  => thinking_content = Some("")

\* C6 witness: an input whose only pair is empty, with text around it
C6_Witness ==
    /\ ThinkingReturned
    /\ \E q \in CompletePairs(response) :
          CompletePairs(response) = {q} /\ Inner(response, q) = ""
    /\ thinking_content = Some("")
    /\ after_thinking # ""

\* C7: in every result the reasoning and the structuredData are each None or
\* a non-empty string, never the empty string.
C7_NeverEmptyString ==
    Returned => (result.reasoning # Some("") /\ result.structuredData # Some(""))

\* C8 (as amended): an opening tag with no closing tag anywhere after it is
\* never matched and never removed: the text from the first such tag on is
\* returned as it is (up to the collapsing of line breaks and the trim),
\* every such tag is in the returned text, and the reasoning is that of the
\* text before the tag.
C8_UnclosedTagKept ==
    (ThinkingReturned /\ UnclosedOpens(response) # {}) =>
        LET u == Min(UnclosedOpens(response))
            before == Sub(response, 1, u - 1)
        IN  /\ Cardinality(OpenPositions(after_thinking))
                  >= Cardinality(UnclosedOpens(response))
            /\ after_thinking =
                  Strip(CollapseNewlines(
                      Outside(before, CompletePairs(before), 1) \o From(response, u)))
            /\ thinking_content =
                  IF CompletePairs(before) = {} THEN None
                  ELSE Some(JoinedReasoning(before))

\* C8 witness: a complete pair, then an opening tag that is never closed
C8_Witness ==
    /\ ThinkingReturned
    /\ CompletePairs(response) # {}
    /\ UnclosedOpens(response) # {}
    /\ thinking_content # None
    /\ OpenPositions(after_thinking) # {}

\* C8 (as claimed): an opening tag with no closing tag of its own (the tags
\* paired as nested brackets) stays in the returned text, whatever follows.
C8_TagWithoutOwnCloseKept ==
    ThinkingReturned =>
        Cardinality(OpenPositions(after_thinking)) >= NestingUnclosed(response)

\* C9: for every input made of a JSON object with the keys "title" and "url"
\* followed by a two-sentence explanation, whatever their sizes, the
\* narrative is the explanation and structuredData holds the JSON text.
C9_JsonThenExplanation ==
    Returned =>
        \A j \in JsonObjects, sep \in Separators, e \in Explanations :
            response = j \o sep \o e
                => /\ result.narrative = e
                   /\ result.structuredData # None
                   /\ Contains(result.structuredData[1], j)

\* C10: the narrative never holds a complete <think>...</think> pair nor a
\* complete tool markup block, on any return path.
C10_NarrativeFreeOfMarkup ==
    Returned =>
        /\ CompletePairs(result.narrative) = {}
        /\ ~HasMarkupBlock(result.narrative)

\* the number of characters of a text that are not whitespace
Ink(s) == Cardinality({k \in 1..Len(s) : At(s, k) \notin Whitespace})

\* the text of an optional string, "" for None
TextOf(opt) == IF opt = None THEN "" ELSE opt[1]

\* C11: the content of the text left after reasoning removal ends up in
\* exactly one of the narrative and the structured data: character for
\* character (whitespace aside) the two outputs together hold what that text
\* holds, nothing twice, nothing lost, nothing invented.
C11_ContentConserved ==
    Returned =>
        Ink(result.narrative) + Ink(TextOf(result.structuredData)) = Ink(after_thinking)

\* the text holds an opening brace or bracket that no closing one follows
HasUnbalancedBracket(s) ==
    \E k \in 1..Len(json_patterns) :
        LET o == Find(s, json_patterns[k][1], 1)
        IN  o # 0 /\ Find(s, json_patterns[k][2], o) = 0

\* the positions of a call, in the order the code reaches them
Positions == <<"start", "enhanced", "results", "json", "lines", "safety", "done">>

\* a bound on the number of steps a call has left: the positions ahead of it
\* and, before and inside the loop over the lines, the lines still to read
\* (a text of n characters has n + 1 lines at most)
StepsLeft ==
    CASE pc = "start"    -> 6 + Len(response) + 1
      [] pc = "enhanced" -> 5 + Len(after_thinking) + 1
      [] pc = "results"  -> 4 + Len(clean_response) + 1
      [] pc = "json"     -> 3 + Len(clean_response) + 1
      [] pc = "lines"    -> 2 + (Len(lines) + 1 - i)
      [] pc = "safety"   -> 1
      [] OTHER           -> 0

\* C12: process_agent_response is total: whatever the input, every step of a
\* call brings it nearer to its return (the steps left are a natural number
\* that every step decreases, the loop over the lines advancing by one line
\* per iteration), a call is at a position of the code until it has returned,
\* and what it returns is a triple of a text and two optional texts.
C12_Total ==
    /\ [](StepsLeft >= 0 /\ \E k \in 1..Len(Positions) : pc = Positions[k])
    /\ [](pc = "lines" => i <= Len(lines) + 1)
    /\ [][round' = round => StepsLeft' < StepsLeft]_vars
    /\ [][(pc = "lines" /\ pc' = "lines") => i' = i + 1]_vars
    /\ [](Returned => /\ Len(result.narrative) >= 0
                      /\ Len(result.reasoning) <= 1
                      /\ Len(result.structuredData) <= 1)

\* C12 witness: a call on a text with an unbalanced bracket has returned, and
\* so has one on a text with an unterminated reasoning tag
C12_Witness ==
    /\ Returned
    /\ \/ HasUnbalancedBracket(response)
       \/ UnclosedOpens(response) # {}
    /\ Strip(response) # ""

\* the call, step by step, returns what the call as a function returns
StepsAgreeWithFunction == Returned => result = process_agent_response(response)

\* C13: invocations share no mutable state: in every interleaving each
\* invocation returns what the call returns when run alone on its argument,
\* and two invocations on the same argument return the same triple.
C13_InvocationsIndependent ==
    \A p \in Procs :
        LocalsOf(p).pc = "done" =>
            /\ LocalsOf(p).result = process_agent_response(calls.arg[p])
            /\ \A q \in Procs :
                  (LocalsOf(q).pc = "done" /\ calls.arg[q] = calls.arg[p])
                      => LocalsOf(q).result = LocalsOf(p).result

\* C13 witness: an invocation has returned its reasoning while another one,
\* on a different argument with reasoning of its own, was suspended in the
\* middle of its filtering
C13_Witness ==
    \E p, q \in Procs :
        /\ p = calls.running
        /\ LocalsOf(p).pc = "done"
        /\ LocalsOf(q).pc \notin {"start", "done"}
        /\ calls.arg[p] # calls.arg[q]
        /\ LocalsOf(p).result.reasoning # None
        /\ LocalsOf(q).thinking_content # None
        /\ LocalsOf(q).thinking_content # LocalsOf(p).result.reasoning

\* the filtering has left no narrative: the text is blank once the reasoning
\* is removed, or the first pass over it kept nothing
FilterLeftNothing == Strip(after_thinking) = "" \/ clean_response = ""

\* C14: when filtering leaves an empty narrative although the original input
\* has non-whitespace content, the pipeline returns the full original input,
\* trimmed, as the narrative, with the structured data that was collected.
C14_EmptyNarrativeFallsBack ==
    (Returned /\ FilterLeftNothing /\ Strip(response) # "")
    => /\ result.narrative = Strip(response)
       /\ result.structuredData = mcp_data

\* C15: whenever the first-pass narrative is shorter than 25% of the input
\* of process_mcp_response_enhanced, the narrative returned is that input
\* with the markup blocks alone removed (blank lines collapsed, trimmed) and
\* the structured data is those markup spans alone, None when there are none.
C15_TierTwoBelowQuarter ==
    (/\ Returned
     /\ Strip(after_thinking) # ""
     /\ 100 * Len(clean_response) < SafetyNetPercent * Len(after_thinking))
    => /\ result.narrative = SimpleClean(after_thinking).narrative
       /\ result.structuredData = SimpleClean(after_thinking).structuredData

\* the human text is a quarter of the whole text at least
HumanTextIsQuarter(text, h) == 100 * Len(h) >= SafetyNetPercent * Len(text)

\* C19 (as amended): for an input made of a leading run of three or more
\* key: value metadata lines, a blank line and human text, the narrative is
\* the human text and the structured data holds every metadata line when the
\* human text is a quarter of the input at least; when it is shorter the
\* narrative is the whole input and there is no structured data.
C19_MetadataRunThenText ==
    Returned =>
        \A ms \in MetadataRuns, h \in HumanTexts :
            response = Join("\n", ms) \o "\n\n" \o h =>
                IF HumanTextIsQuarter(response, h)
                THEN /\ result.narrative = h
                     /\ result.reasoning = None
                     /\ result.structuredData # None
                     /\ \A k \in 1..Len(ms) : Contains(TextOf(result.structuredData), ms[k])
                ELSE /\ result.narrative = response
                     /\ result.structuredData = None

\* C19 witness: a run of four metadata lines and a text of two lines that is
\* a quarter of the input has been processed
C19_Witness ==
    /\ Returned
    /\ round = 1
    /\ \E ms \in MetadataRuns, h \in HumanTexts :
          /\ response = Join("\n", ms) \o "\n\n" \o h
          /\ Len(ms) >= 4
          /\ Contains(h, "\n")
          /\ HumanTextIsQuarter(response, h)
          /\ result.narrative = h

\* C19 (as claimed): ... whatever the relative lengths of the metadata run
\* and the human text.
C19_WhateverTheLengths ==
    Returned =>
        \A ms \in MetadataRuns, h \in HumanTexts :
            response = Join("\n", ms) \o "\n\n" \o h =>
                /\ result.narrative = h
                /\ result.structuredData # None
                /\ \A k \in 1..Len(ms) : Contains(TextOf(result.structuredData), ms[k])

\* the line the loop of process_mcp_response is about to classify
CurrentLine == lines[i]

\* a line the loop classifies: not blank and not the mark of a JSON block
IsClassified(line) == Strip(line) # "" /\ Strip(line) # JsonBlockMarker

\* one of the words of the line is a word of the natural-word list
HasDiscourseWord(line) ==
    LET words == WordsFrom(Lower(Strip(line)), 1)
    IN  \E k \in 1..Len(words) : words[k] \in natural_words

\* C16: in tier 1 of process_mcp_response a line starting with '{' or '[',
\* a single-line tag and a line starting with an ALL-CAPS key of three
\* letters or more are technical (appended to the technical lines), and
\* every other non-blank line goes to the narrative lines.
C16_TierOneOnlyObviousIsTechnical ==
    [][(InTier1Loop /\ Strip(CurrentLine) # "")
        => IF ObviouslyTechnical(Strip(CurrentLine))
           THEN /\ mcp_lines' = Append(mcp_lines, CurrentLine)
                /\ clean_lines' = clean_lines
           ELSE /\ clean_lines' = Append(clean_lines, CurrentLine)
                /\ mcp_lines' = mcp_lines]_vars

\* C17: every non-blank line with two colons or more is classified
\* technical by the line loop of process_mcp_response: the classifier says
\* so, and before the narrative has started the loop appends the line to
\* the technical lines and does not start the narrative.
C17_TwoColonsIsTechnical ==
    [][(InLegacyLoop /\ IsClassified(CurrentLine) /\ ColonCount(CurrentLine) >= 2)
        => /\ looks_like_technical_data(CurrentLine)
           /\ ~human_content_started
                => /\ mcp_lines' = Append(mcp_lines, CurrentLine)
                   /\ clean_lines' = clean_lines
                   /\ ~human_content_started']_vars

\* C17 witness: a line with two colons among discourse words, which no
\* pattern of the list matches, has been appended to the technical lines
C17_Witness ==
    /\ pc = "legacy_lines"
    /\ i > 1
    /\ ColonCount(lines[i - 1]) = 2
    /\ HasDiscourseWord(lines[i - 1])
    /\ ~MatchesMcpPattern(Strip(lines[i - 1]))
    /\ ~human_content_started
    /\ mcp_lines # <<>>
    /\ mcp_lines[Len(mcp_lines)] = lines[i - 1]

\* C18: a line with exactly one colon and a word of the natural-word list
\* is classified narrative by the classifier of process_mcp_response,
\* wherever the colon stands in the line.
C18_OneColonSentenceIsNarrative ==
    (InLegacyLoop /\ IsClassified(CurrentLine)
        /\ ColonCount(CurrentLine) = 1 /\ HasDiscourseWord(CurrentLine))
    => ~looks_like_technical_data(CurrentLine)

\* the narrative lines hold a run of technical lines longer than the cap
KeptTechnicalRun ==
    \E k \in 1..(Len(clean_lines) - TechnicalRunCap) :
        \A m \in k..(k + TechnicalRunCap) : looks_like_technical_data(clean_lines[m])

\* C20: once the narrative has started, a technical line is kept in the
\* narrative with the counter reset when the counter is below 2 and is
\* appended to the technical lines with the counter incremented when it is
\* 2 or more, and so a renewed block of technical lines after narrative
\* text is not kept in the narrative.
C20_RenewedBlockLeavesNarrative ==
    /\ [][(InLegacyLoop /\ IsClassified(CurrentLine) /\ human_content_started
            /\ looks_like_technical_data(CurrentLine))
          => IF consecutive_technical_lines < 2
             THEN /\ clean_lines' = Append(clean_lines, CurrentLine)
                  /\ mcp_lines' = mcp_lines
                  /\ consecutive_technical_lines' = 0
             ELSE /\ mcp_lines' = Append(mcp_lines, CurrentLine)
                  /\ clean_lines' = clean_lines
                  /\ consecutive_technical_lines' = consecutive_technical_lines + 1]_vars
    /\ [](pc \in {"legacy_lines", "legacy_check"} => ~KeptTechnicalRun)

\* the line is not the mark of a removed JSON block
NotMarker(line) == Strip(line) # JsonBlockMarker

\* the line is one the classifier of process_mcp_response takes for narrative
IsNarrativeLine(line) == IsClassified(line) /\ ~looks_like_technical_data(line)

\* the index of the first narrative line of ls, 0 when there is none
NarrativeStart(ls) ==
    LET starts == {k \in 1..Len(ls) : IsNarrativeLine(ls[k])}
    IN  IF starts = {} THEN 0 ELSE Min(starts)

\* the text from the first narrative line of ls on, the marks left out
TextFromNarrativeStart(ls) ==
    Strip(Join("\n", SelectSeq(SubSeq(ls, NarrativeStart(ls), Len(ls)), NotMarker)))

\* every technical line of ls before its first narrative line is in the data
TechnicalPrefixInData(ls, data) ==
    \A j \in 1..(NarrativeStart(ls) - 1) :
        (IsClassified(ls[j]) /\ looks_like_technical_data(ls[j]))
            => data # None /\ Contains(TextOf(data), Strip(ls[j]))

BlockEnds ==
    /\ pc = "lines"
    /\ in_metadata_block
    /\ metadata_block_lines # <<>>
    /\ \/ i > Len(lines)
       \/ Strip(lines[i]) # "" /\ ~IsMetadata(Strip(lines[i]))

\* the line the loop is at, as a sequence, empty once the input is read
LineRead == IF i <= Len(lines) THEN <<lines[i]>> ELSE <<>>

\* the step moves the whole buffer to the technical lines
BlockGoesToData ==
    /\ mcp_lines' = mcp_lines \o metadata_block_lines
    /\ clean_lines' = clean_lines \o LineRead

\* the step puts the whole buffer in the narrative lines, before the line read
BlockIsFolded ==
    /\ clean_lines' = clean_lines \o metadata_block_lines \o LineRead
    /\ mcp_lines' = mcp_lines

\* the step keeps the buffer and adds the line read to it
BlockIsKept ==
    /\ UNCHANGED <<clean_lines, mcp_lines>>
    /\ metadata_block_lines' = metadata_block_lines \o LineRead

\* the number of lines of the buffer that are not blank
MetadataLinesBuffered ==
    Cardinality({j \in 1..Len(metadata_block_lines) : Strip(metadata_block_lines[j]) # ""})

\* C22: a buffered metadata block is resolved only when it ends (at the
\* next non-metadata line or at end of input) and as a whole: it goes to
\* structured data when it holds three or more metadata lines or when
\* narrative has not started, and it is folded into the narrative, in its
\* original position, when it holds fewer than three metadata lines and
\* narrative has started.
C22_ThreeMetadataLines ==
    [][(pc = "lines" /\ in_metadata_block)
        => IF BlockEnds
           THEN IF MetadataLinesBuffered >= 3 \/ ~human_content_started
                THEN BlockGoesToData
                ELSE BlockIsFolded
           ELSE BlockIsKept]_vars

\* either line loop is at a blank line
AtBlankLine ==
    /\ pc \in {"lines", "legacy_lines"}
    /\ i <= Len(lines)
    /\ Strip(lines[i]) = ""

\* the step appends the line read to the metadata buffer alone
BlankToBuffer ==
    /\ metadata_block_lines' = Append(metadata_block_lines, lines[i])
    /\ UNCHANGED <<clean_lines, mcp_lines>>

\* the step appends the line read to the narrative lines alone
BlankToNarrative ==
    /\ clean_lines' = Append(clean_lines, lines[i])
    /\ UNCHANGED <<mcp_lines, metadata_block_lines>>

\* the step appends the line read to the technical lines alone
BlankToTechnical ==
    /\ mcp_lines' = Append(mcp_lines, lines[i])
    /\ UNCHANGED <<clean_lines, metadata_block_lines>>

\* the step appends the line read to no collection
BlankDropped == UNCHANGED <<clean_lines, mcp_lines, metadata_block_lines>>

\* the step leaves the state of the classifier as it is
ClassifierStateKept ==
    UNCHANGED <<human_content_started, in_metadata_block, consecutive_technical_lines>>

\* C23 (as amended): in both line classifiers a blank line is routed
\* according to the current state (metadata buffer if inside a metadata
\* block, else narrative if narrative has started, else technical
\* collection, except that process_mcp_response drops the blank line when
\* its technical collection is still empty) and leaves the classifier state
\* unchanged: narrative-started flag, in-metadata-block flag and
\* consecutive-technical counter keep their values.
C23_BlankLineRoutedByState ==
    [][AtBlankLine
        => /\ IF in_metadata_block THEN BlankToBuffer
              ELSE IF human_content_started THEN BlankToNarrative
              ELSE IF pc = "legacy_lines" /\ mcp_lines = <<>> THEN BlankDropped
              ELSE BlankToTechnical
           /\ ClassifierStateKept]_vars

\* C23 witness: process_mcp_response, before narrative started and after a
\* technical line, has put a blank line in the technical lines and kept its
\* counter
C23_Witness ==
    /\ pc = "legacy_lines"
    /\ i > 2
    /\ Strip(lines[i - 1]) = ""
    /\ ~human_content_started
    /\ consecutive_technical_lines > 0
    /\ mcp_lines # <<>>
    /\ mcp_lines[Len(mcp_lines)] = lines[i - 1]

\* C23 (as claimed): ... else technical collection, in both classifiers.
C23_BlankLineAlwaysRouted ==
    [][AtBlankLine
        => /\ IF in_metadata_block THEN BlankToBuffer
              ELSE IF human_content_started THEN BlankToNarrative
              ELSE BlankToTechnical
           /\ ClassifierStateKept]_vars

\* the brace-delimited candidate spans of the input, in order
JsonBlockCandidates == FindAllBracketed(response, 1, "{", "}")

\* the span is one the coarse pass removes
IsLongBlock(block) == Len(block) > JsonBlockLength

RECURSIVE ReplaceLongBlocks(_, _, _)
\* the text from position `from` on, each of the candidate spans `blocks`
\* that is longer than JsonBlockLength replaced, where it stands, by the
\* placeholder line, every other character kept
ReplaceLongBlocks(text, from, blocks) ==
    IF blocks = <<>> THEN From(text, from)
    ELSE LET at == Find(text, blocks[1], from)
         IN  Sub(text, from, at - 1)
                \o (IF IsLongBlock(blocks[1])
                    THEN "\n" \o JsonBlockMarker \o "\n"
                    ELSE blocks[1])
                \o ReplaceLongBlocks(text, at + Len(blocks[1]), Tail(blocks))

RECURSIVE StrippedLongBlocks(_)
\* the spans longer than JsonBlockLength, stripped, in order
StrippedLongBlocks(blocks) ==
    IF blocks = <<>> THEN <<>>
    ELSE (IF IsLongBlock(blocks[1]) THEN <<Strip(blocks[1])>> ELSE <<>>)
            \o StrippedLongBlocks(Tail(blocks))

\* C24: in the coarse pass of process_mcp_response a brace-delimited
\* candidate span is removed exactly when its length exceeds 50 characters;
\* each removed span is appended to the structured data and replaced by a
\* placeholder line, and the placeholder is dropped by the line loop so that
\* it never appears in the returned narrative or structured data.
C24_LongBlocksReplaced ==
    /\ pc \in {"legacy_lines", "legacy_check", "tier1", "legacy_return", "legacy_done"}
        => /\ response_no_json = ReplaceLongBlocks(response, 1, JsonBlockCandidates)
           /\ json_data_parts = StrippedLongBlocks(JsonBlockCandidates)
    /\ LegacyReturned
        => /\ ~Contains(result.narrative, JsonBlockMarker)
           /\ ~Contains(TextOf(result.structuredData), JsonBlockMarker)
           /\ \A k \in 1..Len(json_data_parts) :
                 Contains(TextOf(result.structuredData), json_data_parts[k])

RECURSIVE DeleteKeyworded(_, _, _)
\* the text from position `from` on, each of the candidate spans `matches`
\* that holds a keyword deleted where it stands, every other character kept
DeleteKeyworded(text, from, matches) ==
    IF matches = <<>> THEN From(text, from)
    ELSE LET at == Find(text, matches[1], from)
         IN  Sub(text, from, at - 1)
                \o (IF HasKeyword(matches[1]) THEN "" ELSE matches[1])
                \o DeleteKeyworded(text, at + Len(matches[1]), Tail(matches))

\* the text has no keyword
HasNoKeyword(match) == ~HasKeyword(match)

\* C25: in the selective pass of process_mcp_response_enhanced, a brace- or
\* bracket-delimited candidate span is moved from the working text to the
\* structured data exactly when its lowercased content contains at least
\* one term of the fixed keyword set; a candidate with no keyword stays in
\* the working text unchanged.
C25_KeywordedCandidatesMoved ==
    [][pc = "json"
        => LET braces == FindAllBracketed(clean_response, 1, "{", "}")
               after_braces == DeleteKeyworded(clean_response, 1, braces)
               brackets == FindAllBracketed(after_braces, 1, "[", "]")
               kept == SelectSeq(braces \o brackets, HasNoKeyword)
           IN  /\ clean_response' = DeleteKeyworded(after_braces, 1, brackets)
               /\ all_mcp_data' = all_mcp_data \o SelectSeq(braces \o brackets, HasKeyword)
               /\ \A k \in 1..Len(kept) : Contains(clean_response', kept[k])]_vars

\* the place of a stage in the order reasoning extraction, markup-block
\* removal (calls, then results), bracketed-data removal, line
\* classification, safety net, return
StageRank(stage) ==
    CASE stage = "start" -> 0
      [] stage = "enhanced" -> 1
      [] stage = "results" -> 2
      [] stage = "json" -> 3
      [] stage = "lines" -> 4
      [] stage = "safety" -> 5
      [] stage = "done" -> 6
      [] OTHER -> 7

\* a step that leaves a stage enters the next one; a text that is empty
\* after reasoning extraction is returned at once, and a new call starts
\* with reasoning extraction
StagesInOrder ==
    pc' # pc
        => \/ StageRank(pc') = StageRank(pc) + 1
           \/ pc = "enhanced" /\ pc' = "done" /\ Strip(after_thinking) = ""
           \/ pc = "done" /\ pc' = "start"

\* a step of a stage keeps the fragments collected before it, in their order
FragmentsKept ==
    pc \in {"results", "json", "lines"}
        => /\ Len(all_mcp_data') >= Len(all_mcp_data)
           /\ SubSeq(all_mcp_data', 1, Len(all_mcp_data)) = all_mcp_data

\* the parts joined by one blank line, absent when there is no part
BlankLineJoined(parts) == IF parts = <<>> THEN None ELSE Some(Join("\n\n", parts))

\* the parts joined by one blank line and trimmed, absent when there is no part
BlankLineJoinedTrimmed(parts) ==
    IF parts = <<>> THEN None ELSE Some(Strip(Join("\n\n", parts)))

\* the markup blocks of the text left after reasoning extraction
MarkupFragments ==
    RemoveMarkup([text |-> after_thinking, data |-> <<>>],
                 function_call_patterns \o result_patterns).data

\* the narrative of the first pass is below 25% of the text it was given
TierTwoApplies == RemovedTooMuch(clean_response, after_thinking)

\* C26 (as amended): process_agent_response runs its stages in the fixed
\* order reasoning extraction, markup-block removal, bracketed-data removal,
\* line classification, safety net; the structuredData it returns is the
\* collected fragments in that stage order joined by one blank line and
\* trimmed, absent exactly when no fragment was collected, unless
\* safety-net tier 2 applies: then it is the markup blocks alone, joined and
\* trimmed the same way, and absent when there is none.
C26_StagesInOrderDataJoined ==
    /\ [][StagesInOrder /\ FragmentsKept]_vars
    /\ [](Returned
            => result.structuredData =
                  IF TierTwoApplies
                  THEN BlankLineJoinedTrimmed(MarkupFragments)
                  ELSE BlankLineJoinedTrimmed(all_mcp_data))

\* C26 witness: a markup block, a keyworded span and a metadata line were
\* collected in that order and returned joined by blank lines
C26_Witness ==
    /\ Returned
    /\ ~TierTwoApplies
    /\ clean_response # ""
    /\ result.narrative = clean_response
    /\ Len(all_mcp_data) >= 3
    /\ MarkupFragments # <<>>
    /\ all_mcp_data[1] = MarkupFragments[1]
    /\ HasKeyword(all_mcp_data[2])
    /\ IsMetadata(all_mcp_data[3])
    /\ result.structuredData = BlankLineJoined(all_mcp_data)

\* C26 (as claimed): ... joined by one blank line, absent exactly when no
\* fragment was collected, whatever the safety net does.
C26_DataIsEveryFragmentJoined ==
    /\ [][StagesInOrder /\ FragmentsKept]_vars
    /\ [](Returned => result.structuredData = BlankLineJoined(all_mcp_data))

\* the line is neither blank nor metadata: the loop takes it for narrative
IsHumanLine(line) == Strip(line) # "" /\ ~IsMetadata(Strip(line))

\* the line matches a conversational opener or is longer than 25 characters
OpensNarrative(line) == LooksConversational(Strip(line)) \/ Len(Strip(line)) > 25

\* C27: in process_mcp_response_enhanced, the narrative-started flag becomes
\* true only at a non-blank, non-metadata line that matches a conversational
\* opener or is longer than 25 characters; a shorter non-metadata line
\* without an opener is appended to the narrative but does not start it, and
\* the flag never returns to false.
C27_NarrativeStartsAtOpenerOrLongLine ==
    [][/\ (pc = "lines" /\ ~human_content_started /\ human_content_started')
            => i <= Len(lines) /\ IsHumanLine(lines[i]) /\ OpensNarrative(lines[i])
       /\ (pc = "lines" /\ i <= Len(lines) /\ ~human_content_started
              /\ IsHumanLine(lines[i]) /\ ~OpensNarrative(lines[i]))
            => /\ ~human_content_started'
               /\ clean_lines' # <<>>
               /\ clean_lines'[Len(clean_lines')] = lines[i]
               /\ Len(clean_lines') > Len(clean_lines)
       /\ (pc \in {"lines", "safety"} /\ human_content_started)
            => human_content_started']_vars

\* C27 witness: a line of 25 characters without opener is in the narrative
\* lines and narrative has not started
C27_Witness ==
    /\ pc = "lines"
    /\ i = 2
    /\ Len(Strip(lines[1])) = 25
    /\ clean_lines = <<lines[1]>>
    /\ ~human_content_started

\* the loop of process_mcp_response is at a line that is neither blank nor
\* the mark of a removed JSON block
AtLegacyClassifiedLine == InLegacyLoop /\ IsClassified(lines[i])

RECURSIVE Interleaves(_, _, _)
\* every element of `all` is in exactly one of `left` and `right`, and each
\* of the two keeps its elements in the order they have in `all`
Interleaves(all, left, right) ==
    IF all = <<>> THEN left = <<>> /\ right = <<>>
    ELSE \/ left # <<>> /\ left[1] = all[1] /\ Interleaves(Tail(all), Tail(left), right)
         \/ right # <<>> /\ right[1] = all[1] /\ Interleaves(Tail(all), left, Tail(right))

\* C29: after the loop of process_mcp_response_enhanced and the final
\* flush, every line of the working text is in exactly one of the narrative
\* lines or the technical lines, each list keeps the lines in their input
\* order, and the metadata buffer is non-empty exactly while the
\* in-metadata-block flag is true.
C29_LinesPartitioned ==
    /\ pc = "safety" => Interleaves(lines, clean_lines, mcp_lines)
    /\ pc \in {"lines", "safety"} => (in_metadata_block <=> metadata_block_lines # <<>>)

\* C29 witness: the loop ended inside a metadata block, after lines of both
\* kinds, and the flush has put the block in the technical lines
C29_Witness ==
    /\ pc = "safety"
    /\ in_metadata_block
    /\ metadata_block_lines # <<>>
    /\ clean_lines # <<>>
    /\ Len(mcp_lines) > Len(metadata_block_lines)
    /\ Interleaves(lines, clean_lines, mcp_lines)

\* texts free of reasoning tags, to stand inside a reasoning block
InnerContents == {"", "b", "a long reasoning about the matter at hand"}

RECURSIVE WithInner(_, _, _, _)
\* the text s from position `from` on, the inner content of each of its
\* matched reasoning pairs `spans` replaced by `inner`, the tags kept as
\* they are written
WithInner(s, spans, from, inner) ==
    IF spans = <<>> THEN From(s, from)
    ELSE Sub(s, from, spans[1][1] + Len(ThinkOpen) - 1)
            \o inner
            \o Sub(s, spans[1][2] - Len(ThinkClose), spans[1][2] - 1)
            \o WithInner(s, Tail(spans), spans[1][2], inner)

\* the input with `inner` inside each of its matched reasoning pairs
OtherInput(inner) == WithInner(response, ThinkSpans(response), 1, inner)

\* the two texts have as many matched reasoning pairs and, outside them,
\* the same text
DifferOnlyInReasoning(a, b) ==
    /\ Len(ThinkSpans(a)) = Len(ThinkSpans(b))
    /\ \A inner \in InnerContents :
          WithInner(a, ThinkSpans(a), 1, inner) = WithInner(b, ThinkSpans(b), 1, inner)

\* the narrative of the first pass is below 25% of the text without the
\* reasoning
BelowQuarterOfAfterThinking ==
    clean_response # "" /\ 100 * Len(clean_response) < 25 * Len(after_thinking)

\* C30: the narrative and structuredData returned by process_agent_response
\* depend only on the text left after reasoning removal: two inputs that
\* differ only in the inner content of their matched <think> pairs yield
\* the same narrative and the same structuredData, and the 25% safety-net
\* threshold is measured against the text without the reasoning.
C30_ReasoningDoesNotChangeTheRest ==
    Returned
        => /\ \A inner \in InnerContents :
                 (/\ ThinkSpans(response) # <<>>
                  /\ DifferOnlyInReasoning(response, OtherInput(inner)))
                    => /\ process_agent_response(OtherInput(inner)).narrative
                             = result.narrative
                       /\ process_agent_response(OtherInput(inner)).structuredData
                             = result.structuredData
           /\ IF BelowQuarterOfAfterThinking
              THEN /\ result.narrative = SimpleClean(after_thinking).narrative
                   /\ result.structuredData = SimpleClean(after_thinking).structuredData
              ELSE /\ result.narrative \in {clean_response, Strip(after_thinking)}
                   /\ result.structuredData = mcp_data

\* C30 witness: an input with a reasoning block has returned a narrative
\* and structured data that an input with a longer reasoning returns too,
\* the narrative being above 25% of the text without the reasoning and
\* below 25% of the longer input
C30_Witness ==
    /\ Returned
    /\ ThinkSpans(response) # <<>>
    /\ result.narrative # ""
    /\ result.narrative = clean_response
    /\ result.structuredData # None
    /\ \E inner \in InnerContents :
          /\ OtherInput(inner) # response
          /\ DifferOnlyInReasoning(response, OtherInput(inner))
          /\ 100 * Len(result.narrative) < 25 * Len(OtherInput(inner))
          /\ ~BelowQuarterOfAfterThinking
          /\ process_agent_response(OtherInput(inner)).narrative = result.narrative
          /\ process_agent_response(OtherInput(inner)).structuredData = result.structuredData

====
